---- MODULE Spec2Model ----
(***************************************************************************)
(* Model of the Pong server session of src/pong/pongServer.py: the         *)
(* simulation loop of run_server (paddles, ball, scoring, win / rematch    *)
(* state machine, broadcast, teardown), the per-controller input threads   *)
(* (handle_client_input) and the spectator acceptor (accept_spectators).   *)
(*                                                                         *)
(* Connections are numbered in accept order: 1 is the left controller,     *)
(* 2 the right controller, 3.. are spectators.                             *)
(***************************************************************************)
EXTENDS Integers, Sequences, FiniteSets, TLC

VARIABLES
    leftY, rightY,      \* leftPaddle.rect.y, rightPaddle.rect.y
    ball,               \* ball.rect.x, ball.rect.y, ball.xVel, ball.yVel
    lScore, rScore,     \* the two scores
    winner_recorded,    \* run_server's winner_recorded flag
    move,               \* left_move["value"], right_move["value"]
    ready,              \* left_ready["value"], right_ready["value"]
    spectators,         \* the shared spectators list
    sock,               \* per connection: the server-side socket object
    net,                \* per connection: whether the peer is still there
    listening,          \* the listening socket is open
    pc,                 \* position of the main thread of run_server
    ingest,             \* per controller: position of its input thread
    acc,                \* position of the acceptor thread and its conn
    ticks,              \* number of loop iterations executed
    events,             \* number of things the clients have done so far
    state_line,         \* the last state line built by the loop
    rcvd,               \* per connection: last state line delivered to it
    wins,               \* history: winner of each round that reached WIN_SCORE
    recorded,           \* history: argument of each record_win call
    last,               \* history: what the latest iteration read and sent
    config,             \* history: per connection, the config lines sent to it
    log,                \* history: per connection, the iterations whose state
                        \* line was delivered to it
    wire,               \* per controller: the bytes its client has yet to deliver
    buffer,             \* per controller: handle_client_input's buffer
    lines,              \* history: per controller, the lines split off the buffer
    script,             \* history: per controller, the whole stream of its client
    snap,               \* the six integers a state line is built from
    text,               \* the state line on the wire
    decoded,            \* what recv_state returned
    codec,              \* how far the state line has got
    leaderboard,        \* the leaderboard dict
    lbfile,             \* the leaderboard file
    leaderboard_lock,   \* the thread that holds leaderboard_lock, or 0
    lbt,                \* per thread: its position in record_win or do_GET
    items,              \* the rows do_GET served last
    called,             \* history: the identifiers record_win has dealt with
    loaded,             \* history: the leaderboard as loaded at import
    users,              \* the users file: username -> stored salt and hash
    ut,                 \* per thread: its position in register_user
    regs,               \* history: the calls of register_user that returned
    auths,              \* history: the calls of authenticate that returned
    spectators_lock,    \* the thread that holds spectators_lock, or "free"
    mt,                 \* the main thread's position in the broadcast or the
                        \* teardown, statement by statement
    at,                 \* the acceptor's position, statement by statement
    sock_file,          \* client: the lines the server sends it, yet to be read
    shared_state,       \* client: the shared_state dict
    state_lock,         \* client: the thread that holds state_lock, or free
    rt,                 \* client: position and locals of receive_loop
    cl,                 \* client: position and locals of playGame's loop
    got,                \* history: the states recv_state has returned
    hist,               \* history: the scores the loop read and its ready lines
    outbox              \* history: the lines the client has sent

vars == << leftY, rightY, ball, lScore, rScore, winner_recorded, move, ready,
           spectators, sock, net, listening, pc, ingest, acc, ticks, events,
           state_line, rcvd, wins, recorded, last, config, log,
           wire, buffer, lines, script, snap, text, decoded, codec,
           leaderboard, lbfile, leaderboard_lock, lbt, items, called,
           loaded, users, ut, regs, auths, spectators_lock, mt, at,
           sock_file, shared_state, state_lock, rt, cl, got, hist, outbox >>

\* the state of run_server's session as the threads of one line at a time see it
sessionVars == << leftY, rightY, ball, lScore, rScore, winner_recorded, move,
                  ready, spectators, sock, net, listening, pc, ingest, acc,
                  ticks, events, state_line, rcvd, wins, recorded, last,
                  config, log >>

\* the byte streams of the two controllers
ingVars == << wire, buffer, lines, script >>

\* one state line on its way to a client
codecVars == << snap, text, decoded, codec >>

\* the leaderboard and the threads that use it
lbVars == << leaderboard, lbfile, leaderboard_lock, lbt, items, called,
           loaded >>

\* the users file and the threads that use it
userVars == << users, ut, regs, auths >>

\* spectators_lock and the two threads that take it
lockVars == << spectators_lock, mt, at >>

\* one client: its receiver thread and the loop of playGame
clientVars == << sock_file, shared_state, state_lock, rt, cl, got, hist,
               outbox >>

\* what the steps of the session leave alone
libVars == << ingVars, codecVars, lbVars, userVars, lockVars, clientVars >>

----------------------------------------------------------------------------
(* Program constants *)

SCREEN_WIDTH == 640
SCREEN_HEIGHT == 480
WIN_SCORE == 5
paddleHeight == 50
paddleWidth == 10
WallThickness == 10
BallSize == 5
BallSpeed == 5
PaddleSpeed == 5
leftPaddleX == 10

paddleStartPosY == (SCREEN_HEIGHT \div 2) - (paddleHeight \div 2)
rightPaddleX == SCREEN_WIDTH - 20
ballStartX == SCREEN_WIDTH \div 2
ballStartY == SCREEN_HEIGHT \div 2

left_initials == "LEFT"
right_initials == "RIGHT"

(* Bounds of the model *)

MaxTicks == 4
MaxSpectators == 2
MaxEvents == 2

LEFT == 1
RIGHT == 2
Controllers == {LEFT, RIGHT}
SpectatorConns == 3..(2 + MaxSpectators)
Conns == Controllers \cup SpectatorConns

----------------------------------------------------------------------------
(* pygame.Rect geometry, as used by the loop *)

Rect(x, y, w, h) == [x |-> x, y |-> y, w |-> w, h |-> h]

colliderect(a, b) ==
    /\ a.x < b.x + b.w
    /\ a.y < b.y + b.h
    /\ a.x + a.w > b.x
    /\ a.y + a.h > b.y

centery(r) == r.y + (r.h \div 2)

leftPaddleRect(y) == Rect(leftPaddleX, y, paddleWidth, paddleHeight)
rightPaddleRect(y) == Rect(rightPaddleX, y, paddleWidth, paddleHeight)
ballRect(b) == Rect(b.x, b.y, BallSize, BallSize)
topWall == Rect(-10, 0, SCREEN_WIDTH + 20, WallThickness)
bottomWall == Rect(-10, SCREEN_HEIGHT - 10, SCREEN_WIDTH + 20, WallThickness)

(* Ball of assets/code/helperCode.py *)

Ball(x, y, xv, yv) == [x |-> x, y |-> y, xVel |-> xv, yVel |-> yv]

updatePos(b) == [b EXCEPT !.x = b.x + b.xVel, !.y = b.y + b.yVel]

hitPaddle(b, paddleCenter) ==
    [b EXCEPT !.xVel = -b.xVel,
              !.yVel = (centery(ballRect(b)) - paddleCenter) \div 2]

hitWall(b) == [b EXCEPT !.yVel = -b.yVel]

reset(nowGoing) ==
    Ball(ballStartX, ballStartY,
         IF nowGoing = "left" THEN -BallSpeed ELSE BallSpeed, 0)

----------------------------------------------------------------------------
(* The simulation loop of run_server, one iteration *)

\* mutant of PaddleStep: the paddle may also move when it touches a wall
PaddleStepInclusive(y, mv) ==
    IF mv = "down"
    THEN IF y + paddleHeight <= SCREEN_HEIGHT - 10 THEN y + PaddleSpeed ELSE y
    ELSE IF mv = "up"
         THEN IF y >= 10 THEN y - PaddleSpeed ELSE y
         ELSE y

\* mutant of PaddleStep: "up" and "down" move the paddle the other way
PaddleStepReversed(y, mv) ==
    IF mv = "down"
    THEN IF y + paddleHeight < SCREEN_HEIGHT - 10 THEN y - PaddleSpeed ELSE y
    ELSE IF mv = "up"
         THEN IF y > 10 THEN y + PaddleSpeed ELSE y
         ELSE y

\* lines 368-373 and 376-381: one paddle follows its controller's intent
PaddleStep(y, mv) ==
    IF mv = "down"
    THEN IF y + paddleHeight < SCREEN_HEIGHT - 10 THEN y + PaddleSpeed ELSE y
    ELSE IF mv = "up"
         THEN IF y > 10 THEN y - PaddleSpeed ELSE y
         ELSE y

\* line 386: the "win" state
RoundOver(l, r) == l >= WIN_SCORE \/ r >= WIN_SCORE

\* lines 388-395: the winner is recorded when the flag is not yet set
ShouldRecord(l, r, wr) == RoundOver(l, r) /\ ~wr

\* lines 389-393: whose initials are passed to record_win
Winner(l, r) == IF l >= WIN_SCORE THEN left_initials ELSE right_initials

\* mutant of BothReady: one ready flag is enough
BothReadyEither(rd) == rd[LEFT] \/ rd[RIGHT]

\* line 398: both players pressed R
BothReady(rd) == rd[LEFT] /\ rd[RIGHT]

\* mutant of ShouldReset: the ready flags are acted on in any phase
ShouldResetAnyPhase(l, r, rd) == BothReady(rd)

\* lines 386, 398: the rematch is started
ShouldReset(l, r, rd) == RoundOver(l, r) /\ BothReady(rd)

\* mutant of ScoreStep: a point is taken from the side that lost it
ScoreStepTakesPoint(b, l, r) ==
    IF b.x > SCREEN_WIDTH
    THEN [ball |-> reset("left"), lScore |-> l + 1, rScore |-> r - 1]
    ELSE IF b.x < 0
         THEN [ball |-> reset("right"), lScore |-> l - 1, rScore |-> r + 1]
         ELSE [ball |-> b, lScore |-> l, rScore |-> r]

\* mutant of ScoreStep: the point goes to the side whose edge was passed
ScoreStepSameSide(b, l, r) ==
    IF b.x > SCREEN_WIDTH
    THEN [ball |-> reset("left"), lScore |-> l, rScore |-> r + 1]
    ELSE IF b.x < 0
         THEN [ball |-> reset("right"), lScore |-> l + 1, rScore |-> r]
         ELSE [ball |-> b, lScore |-> l, rScore |-> r]

\* mutant of ScoreStep: a ball out of bounds is a point for both sides
ScoreStepBothSides(b, l, r) ==
    IF b.x > SCREEN_WIDTH
    THEN [ball |-> reset("left"), lScore |-> l + 1, rScore |-> r + 1]
    ELSE IF b.x < 0
         THEN [ball |-> reset("right"), lScore |-> l + 1, rScore |-> r + 1]
         ELSE [ball |-> b, lScore |-> l, rScore |-> r]

\* lines 415-420: ball out of bounds -> score
ScoreStep(b, l, r) ==
    IF b.x > SCREEN_WIDTH
    THEN [ball |-> reset("left"), lScore |-> l + 1, rScore |-> r]
    ELSE IF b.x < 0
         THEN [ball |-> reset("right"), lScore |-> l, rScore |-> r + 1]
         ELSE [ball |-> b, lScore |-> l, rScore |-> r]

\* mutant of PaddleCollide: the right paddle does not return the ball
PaddleCollideLeftOnly(b, ly, ry) ==
    IF colliderect(ballRect(b), leftPaddleRect(ly))
    THEN hitPaddle(b, centery(leftPaddleRect(ly)))
    ELSE b

\* lines 423-426: ball and paddle collisions
PaddleCollide(b, ly, ry) ==
    IF colliderect(ballRect(b), leftPaddleRect(ly))
    THEN hitPaddle(b, centery(leftPaddleRect(ly)))
    ELSE IF colliderect(ballRect(b), rightPaddleRect(ry))
         THEN hitPaddle(b, centery(rightPaddleRect(ry)))
         ELSE b

\* lines 429-430: ball and wall collisions
WallCollide(b) ==
    IF colliderect(ballRect(b), topWall) \/ colliderect(ballRect(b), bottomWall)
    THEN hitWall(b)
    ELSE b

\* lines 410-430: normal ball movement
PlayStep(b, ly, ry, l, r) ==
    LET s == ScoreStep(updatePos(b), l, r)
    IN  [s EXCEPT !.ball = WallCollide(PaddleCollide(s.ball, ly, ry))]

\* mutant of BallStep: the ball keeps moving when the round is over
BallStepNeverFrozen(b, ly, ry, l, r) == PlayStep(b, ly, ry, l, r)

\* lines 386-430: the ball and the scores after one iteration
BallStep(b, ly, ry, l, r) ==
    IF RoundOver(l, r)
    THEN [ball |-> b, lScore |-> l, rScore |-> r]
    ELSE PlayStep(b, ly, ry, l, r)

\* lines 433-436: the state line, as its six fields
StateLine(ly, ry, b, l, r) == << ly, ry, b.x, b.y, l, r >>

\* lines 229, 284, 289: a config line, as its three fields
ConfigLine(role) == << SCREEN_WIDTH, SCREEN_HEIGHT, role >>

\* mutant of SpecConfig: a spectator is told it is the left player
SpecConfigLeft == ConfigLine("left")

\* line 229: the config line of a spectator
SpecConfig == ConfigLine("spec")

\* lines 284, 289: the config line of a player
PlayerConfig(c) == ConfigLine(IF c = LEFT THEN "left" ELSE "right")

\* mutant of SendOK: a send on a socket the server has closed succeeds
SendOKOnClosed(c) == net[c] = "up"

\* sendall on a connection succeeds when the socket is open and the peer is there
SendOK(c) == sock[c] = "open" /\ net[c] = "up"

Range(q) == {q[i] : i \in 1..Len(q)}

\* mutant of PlayersOK: a failed send to the right player is ignored
PlayersOKLeftOnly == SendOK(LEFT)

\* lines 440-445: the loop goes on when neither send to a player raised
PlayersOK == SendOK(LEFT) /\ SendOK(RIGHT)

\* mutant of Tried: the spectators are not sent to
TriedPlayersOnly(specs) ==
    IF ~SendOK(LEFT) THEN {LEFT} ELSE {LEFT, RIGHT}

\* mutant of Tried: of the spectators only the one that joined last is sent to
TriedNewestOnly(specs) ==
    IF ~SendOK(LEFT) THEN {LEFT}
    ELSE IF ~SendOK(RIGHT) THEN {LEFT, RIGHT}
         ELSE {LEFT, RIGHT} \cup {specs[i] : i \in {Len(specs)} \ {0}}

\* mutant of Tried: a send that raised stops nothing
TriedRegardless(specs) == {LEFT, RIGHT} \cup Range(specs)

\* lines 441-452: the connections sendall is called on in this iteration: the
\* left player, the right player unless the left send raised, and the
\* spectators unless a send to a player raised
Tried(specs) ==
    IF ~SendOK(LEFT) THEN {LEFT}
    ELSE IF ~SendOK(RIGHT) THEN {LEFT, RIGHT}
         ELSE {LEFT, RIGHT} \cup Range(specs)

\* lines 449-455: the spectators whose send raised
DeadSpecs(specs) == {c \in Range(specs) : ~SendOK(c)}

\* mutant of RemoveDead: a failed send empties the list
RemoveDeadDropsAll(specs, dead) == IF dead = {} THEN specs ELSE << >>

\* lines 456-461: the list without the dead spectators
RemoveDead(specs, dead) == SelectSeq(specs, LAMBDA c : c \notin dead)

\* mutant of Rematch: the ball is served to the right
RematchServesRight ==
    [leftY |-> paddleStartPosY, rightY |-> paddleStartPosY,
     ball |-> reset("right"), lScore |-> 0, rScore |-> 0]

\* lines 399-404: the game a rematch starts from
Rematch ==
    [leftY |-> paddleStartPosY, rightY |-> paddleStartPosY,
     ball |-> reset("left"), lScore |-> 0, rScore |-> 0]

\* mutant of GameStep: the paddles are frozen while the round is over
GameStepFrozenWhenOver(ly0, ry0, b, l, r, mv, rd) ==
    LET ly == IF RoundOver(l, r) THEN ly0 ELSE PaddleStep(ly0, mv[LEFT])
        ry == IF RoundOver(l, r) THEN ry0 ELSE PaddleStep(ry0, mv[RIGHT])
        s  == BallStep(b, ly, ry, l, r)
    IN  IF ShouldReset(l, r, rd)
        THEN Rematch
        ELSE [leftY |-> ly, rightY |-> ry, ball |-> s.ball,
              lScore |-> s.lScore, rScore |-> s.rScore]

\* lines 365-430: the game after the paddle updates and the win / rematch /
\* ball section of one iteration
GameStep(ly0, ry0, b, l, r, mv, rd) ==
    LET ly == PaddleStep(ly0, mv[LEFT])
        ry == PaddleStep(ry0, mv[RIGHT])
        s  == BallStep(b, ly, ry, l, r)
    IN  IF ShouldReset(l, r, rd)
        THEN Rematch
        ELSE [leftY |-> ly, rightY |-> ry, ball |-> s.ball,
              lScore |-> s.lScore, rScore |-> s.rScore]

\* position of the main thread while it waits for player c / sends its config
AcceptPc(c) == IF c = LEFT THEN "accept_left" ELSE "accept_right"
ConfigPc(c) == IF c = LEFT THEN "config_left" ELSE "config_right"

\* lines 282, 287: accept returns the next connection, which becomes player
\* c: connections are numbered in the order they are accepted
AcceptPlayer(c) ==
    /\ pc = AcceptPc(c)
    /\ sock[c] = "none"
    /\ \A d \in Conns : d < c => sock[d] # "none"
    /\ sock' = [sock EXCEPT ![c] = "open"]
    /\ pc' = ConfigPc(c)
    /\ UNCHANGED << leftY, rightY, ball, lScore, rScore, winner_recorded, move,
                    ready, spectators, net, listening, ingest, acc, ticks,
                    events, state_line, rcvd, wins, recorded, last, config >>
    /\ UNCHANGED << log, libVars >>

\* lines 284-285, 289-290: the config line is sent to player c; sendall
\* raising here is not caught and ends run_server
ConfigPlayer(c) ==
    /\ pc = ConfigPc(c)
    /\ config' = [config EXCEPT ![c] = Append(@, PlayerConfig(c))]
    /\ pc' = IF ~SendOK(c) THEN "crashed"
             ELSE IF c = LEFT THEN AcceptPc(RIGHT) ELSE "start"
    /\ UNCHANGED << leftY, rightY, ball, lScore, rScore, winner_recorded, move,
                    ready, spectators, sock, net, listening, ingest, acc, ticks,
                    events, state_line, rcvd, wins, recorded, last >>
    /\ UNCHANGED << log, libVars >>

\* lines 292-361: the initials are read, the input threads and the acceptor
\* thread are started, the game objects are built
StartThreads ==
    /\ pc = "start"
    /\ ingest' = [c \in Controllers |-> "running"]
    /\ acc' = [pc |-> "accept", conn |-> 0]
    /\ pc' = "run"
    /\ UNCHANGED << leftY, rightY, ball, lScore, rScore, winner_recorded, move,
                    ready, spectators, sock, net, listening, ticks, events,
                    state_line, rcvd, wins, recorded, last, config >>
    /\ UNCHANGED << log, libVars >>

NoTick == [over |-> FALSE, rst |-> FALSE, ready |-> [c \in Controllers |-> FALSE],
           ok |-> TRUE, specs |-> << >>, tried |-> {}, delivered |-> {},
           before |-> << >>, ran |-> FALSE, pre |-> << >>, mid |-> {},
           seen |-> [c \in Controllers |-> ""]]

\* no line
NoMsg == "-"

\* per controller, the intent its input thread writes between the two reads
\* of lines 368 and 371 (376 and 379), if it writes one.  Only down written
\* over up is kept: the first read then fails the test for down and the
\* second the test for up.  Any other write there leaves the iteration as a
\* write just before it (first read not down) or just after it (first read
\* down) does, and those are steps of IngestLine.
Mids == [Controllers -> {"down", NoMsg}]

\* the first branch, for "down", is never taken
SeenUpOnly(mv1, mv2) == IF mv2 = "up" THEN "up" ELSE ""

\* lines 368-371, 376-379: the direction the if / elif takes when the first
\* read of the intent gives mv1 and the second mv2
Seen(mv1, mv2) ==
    IF mv1 = "down" THEN "down" ELSE IF mv2 = "up" THEN "up" ELSE ""

\* lines 364-463: one iteration of the loop
Tick ==
    /\ pc = "run"
    /\ ticks < MaxTicks
    /\ \E mid \in Mids :
       LET wr   == {c \in Controllers : mid[c] # NoMsg}
           mv2  == [c \in Controllers |-> IF c \in wr THEN mid[c] ELSE move[c]]
           seen == [c \in Controllers |-> Seen(move[c], mv2[c])]
           rec  == ShouldRecord(lScore, rScore, winner_recorded)
           rst  == ShouldReset(lScore, rScore, ready)
           over == RoundOver(lScore, rScore)
           g    == GameStep(leftY, rightY, ball, lScore, rScore, seen, ready)
           line == StateLine(g.leftY, g.rightY, g.ball, g.lScore, g.rScore)
           dead == DeadSpecs(spectators)
           to   == {c \in Tried(spectators) : SendOK(c)}
       IN  /\ \A c \in wr : move[c] = "up" /\ ingest[c] = "running"
                             /\ sock[c] = "open" /\ net[c] = "up"
           /\ events + Cardinality(wr) <= MaxEvents
           /\ move' = mv2
           /\ events' = events + Cardinality(wr)
           /\ leftY' = g.leftY
           /\ rightY' = g.rightY
           /\ ball' = g.ball
           /\ lScore' = g.lScore
           /\ rScore' = g.rScore
           /\ winner_recorded' = IF rst THEN FALSE
                                 ELSE IF over THEN TRUE ELSE winner_recorded
           /\ ready' = IF rst THEN [c \in Controllers |-> FALSE] ELSE ready
           /\ recorded' = IF rec THEN Append(recorded, Winner(lScore, rScore))
                          ELSE recorded
           /\ wins' = IF ~over /\ RoundOver(g.lScore, g.rScore)
                      THEN Append(wins, Winner(g.lScore, g.rScore)) ELSE wins
           /\ state_line' = line
           /\ rcvd' = [c \in Conns |-> IF c \in to THEN line ELSE rcvd[c]]
           /\ log' = [c \in Conns |->
                        IF c \in to THEN Append(log[c], ticks + 1) ELSE log[c]]
           /\ last' = [over |-> over, rst |-> rst, ready |-> ready,
                       ok |-> PlayersOK, specs |-> spectators,
                       tried |-> Tried(spectators), delivered |-> to,
                       before |-> state_line, ran |-> TRUE,
                       pre |-> [leftY |-> leftY, rightY |-> rightY, ball |-> ball,
                               lScore |-> lScore, rScore |-> rScore,
                               move |-> move],
                       mid |-> wr, seen |-> seen]
           /\ IF PlayersOK
              THEN /\ spectators' = RemoveDead(spectators, dead)
                   /\ sock' = [c \in Conns |-> IF c \in dead THEN "closed" ELSE sock[c]]
                   /\ pc' = "run"
              ELSE /\ UNCHANGED << spectators, sock >>
                   /\ pc' = "close_players"
    /\ ticks' = ticks + 1
    /\ UNCHANGED << net, listening, ingest, acc, config >>
    /\ UNCHANGED libVars

----------------------------------------------------------------------------
(* The finally block of run_server *)

\* lines 467-474: close both player sockets
ClosePlayers ==
    /\ pc = "close_players"
    /\ sock' = [c \in Conns |-> IF c \in Controllers THEN "closed" ELSE sock[c]]
    /\ pc' = "close_spectators"
    /\ UNCHANGED << leftY, rightY, ball, lScore, rScore, winner_recorded, move,
                    ready, spectators, net, listening, ingest, acc, ticks, events,
                    state_line, rcvd, wins, recorded, last,
                    config >>
    /\ UNCHANGED << log, libVars >>

\* lines 477-486: under the lock, close every spectator in the list and clear it
CloseSpectators ==
    /\ pc = "close_spectators"
    /\ sock' = [c \in Conns |-> IF c \in Range(spectators) THEN "closed" ELSE sock[c]]
    /\ spectators' = << >>
    /\ pc' = "close_server"
    /\ UNCHANGED << leftY, rightY, ball, lScore, rScore, winner_recorded, move,
                    ready, net, listening, ingest, acc, ticks, events,
                    state_line, rcvd, wins, recorded, last,
                    config >>
    /\ UNCHANGED << log, libVars >>

\* lines 488-491: close the listening socket
CloseServer ==
    /\ pc = "close_server"
    /\ listening' = FALSE
    /\ pc' = "quit"
    /\ UNCHANGED << leftY, rightY, ball, lScore, rScore, winner_recorded, move,
                    ready, spectators, sock, net, ingest, acc, ticks, events,
                    state_line, rcvd, wins, recorded, last,
                    config >>
    /\ UNCHANGED << log, libVars >>

\* lines 493-494: run_server returns and the process, with its daemon
\* threads, ends
Return ==
    /\ pc = "quit"
    /\ pc' = "done"
    /\ UNCHANGED << leftY, rightY, ball, lScore, rScore, winner_recorded, move,
                    ready, spectators, sock, net, listening, ingest, acc, ticks,
                    events, state_line, rcvd, wins, recorded, last,
                    config >>
    /\ UNCHANGED << log, libVars >>

----------------------------------------------------------------------------
(* handle_client_input, one instance per controller *)

Msgs == {"up", "down", "", "ready", "other"}

\* a ready on the left stream sets the right flag too
ProcessLineLeftReadiesBoth(c, msg) ==
    /\ move' = IF msg \in {"up", "down", ""} THEN [move EXCEPT ![c] = msg] ELSE move
    /\ ready' = IF msg = "ready"
                THEN [d \in Controllers |-> d = c \/ c = LEFT \/ ready[d]]
                ELSE ready

\* an intent on either stream is written to both slots
ProcessLineSharedIntent(c, msg) ==
    /\ move' = IF msg \in {"up", "down", ""}
               THEN [d \in Controllers |-> msg] ELSE move
    /\ ready' = IF msg = "ready" THEN [ready EXCEPT ![c] = TRUE] ELSE ready

\* a movement line takes the slot's ready flag back
ProcessLineMoveClearsReady(c, msg) ==
    /\ move' = IF msg \in {"up", "down", ""} THEN [move EXCEPT ![c] = msg] ELSE move
    /\ ready' = IF msg = "ready" THEN [ready EXCEPT ![c] = TRUE]
                ELSE IF msg \in {"up", "down", ""}
                     THEN [ready EXCEPT ![c] = FALSE] ELSE ready

\* lines 196-201: one complete line, stripped, is processed
ProcessLine(c, msg) ==
    /\ move' = IF msg \in {"up", "down", ""} THEN [move EXCEPT ![c] = msg] ELSE move
    /\ ready' = IF msg \notin {"up", "down", ""} /\ msg = "ready"
                THEN [ready EXCEPT ![c] = TRUE] ELSE ready

\* lines 189-201: recv returns data holding one line
IngestLine(c, msg) ==
    /\ pc # "done"
    /\ ingest[c] = "running"
    /\ sock[c] = "open"
    /\ net[c] = "up"
    /\ events < MaxEvents
    /\ ProcessLine(c, msg)
    /\ events' = events + 1
    /\ UNCHANGED << leftY, rightY, ball, lScore, rScore, winner_recorded,
                    spectators, sock, net, listening, pc, ingest, acc, ticks,
                    state_line, rcvd, wins, recorded, last,
                    config >>
    /\ UNCHANGED << log, libVars >>

\* lines 186-192, 202-203: recv returns no data or raises; leaving the with
\* block closes the socket
IngestExit(c) ==
    /\ pc # "done"
    /\ ingest[c] = "running"
    /\ net[c] = "broken" \/ sock[c] = "closed"
    /\ ingest' = [ingest EXCEPT ![c] = "exited"]
    /\ sock' = [sock EXCEPT ![c] = "closed"]
    /\ UNCHANGED << leftY, rightY, ball, lScore, rScore, winner_recorded, move,
                    ready, spectators, net, listening, pc, acc, ticks, events,
                    state_line, rcvd, wins, recorded, last,
                    config >>
    /\ UNCHANGED << log, libVars >>

\* lines 193, 202-203: the received bytes are not valid UTF-8, decode raises,
\* the exception is caught outside the with block, which has closed the socket
IngestDecodeError(c) ==
    /\ pc # "done"
    /\ ingest[c] = "running"
    /\ sock[c] = "open"
    /\ net[c] = "up"
    /\ events < MaxEvents
    /\ events' = events + 1
    /\ ingest' = [ingest EXCEPT ![c] = "exited"]
    /\ sock' = [sock EXCEPT ![c] = "closed"]
    /\ UNCHANGED << leftY, rightY, ball, lScore, rScore, winner_recorded, move,
                    ready, spectators, net, listening, pc, acc, ticks,
                    state_line, rcvd, wins, recorded, last, config >>
    /\ UNCHANGED << log, libVars >>

----------------------------------------------------------------------------
(* accept_spectators *)

\* line 221: accept returns the next connection
Accept(c) ==
    /\ pc # "done"
    /\ acc.pc = "accept"
    /\ listening
    /\ events < MaxEvents
    /\ events' = events + 1
    /\ c \in SpectatorConns
    /\ sock[c] = "none"
    /\ \A d \in SpectatorConns : d < c => sock[d] # "none"
    /\ sock' = [sock EXCEPT ![c] = "open"]
    /\ acc' = [pc |-> "config", conn |-> c]
    /\ UNCHANGED << leftY, rightY, ball, lScore, rScore, winner_recorded, move,
                    ready, spectators, net, listening, pc, ingest, ticks,
                    state_line, rcvd, wins, recorded, last,
                    config >>
    /\ UNCHANGED << log, libVars >>

\* lines 222-225: accept raises OSError on the closed listening socket
AcceptFails ==
    /\ pc # "done"
    /\ acc.pc = "accept"
    /\ ~listening
    /\ acc' = [pc |-> "exited", conn |-> 0]
    /\ UNCHANGED << leftY, rightY, ball, lScore, rScore, winner_recorded, move,
                    ready, spectators, sock, net, listening, pc, ingest, ticks,
                    events, state_line, rcvd, wins, recorded, last,
                    config >>
    /\ UNCHANGED << log, libVars >>

\* mutant of SendConfig: the continue of line 234 is missing
SendConfigNoContinue ==
    /\ pc # "done"
    /\ acc.pc = "config"
    /\ acc' = [acc EXCEPT !.pc = "append"]
    /\ sock' = IF SendOK(acc.conn) THEN sock
               ELSE [sock EXCEPT ![acc.conn] = "closed"]
    /\ config' = [config EXCEPT ![acc.conn] = Append(@, SpecConfig)]
    /\ UNCHANGED << leftY, rightY, ball, lScore, rScore, winner_recorded, move,
                    ready, spectators, net, listening, pc, ingest, ticks, events,
                    state_line, rcvd, wins, recorded, last >>
    /\ UNCHANGED << log, libVars >>

\* lines 228-234: the "spec" config line is sent; on failure the connection is
\* closed and the acceptor goes back to accept
SendConfig ==
    /\ pc # "done"
    /\ acc.pc = "config"
    /\ IF SendOK(acc.conn)
       THEN /\ acc' = [acc EXCEPT !.pc = "append"]
            /\ UNCHANGED sock
       ELSE /\ acc' = [pc |-> "accept", conn |-> 0]
            /\ sock' = [sock EXCEPT ![acc.conn] = "closed"]
    /\ config' = [config EXCEPT ![acc.conn] = Append(@, SpecConfig)]
    /\ UNCHANGED << leftY, rightY, ball, lScore, rScore, winner_recorded, move,
                    ready, spectators, net, listening, pc, ingest, ticks, events,
                    state_line, rcvd, wins, recorded, last >>
    /\ UNCHANGED << log, libVars >>

\* mutant of AppendSpectator: a second spectator is turned away
AppendSpectatorCapped ==
    /\ pc # "done"
    /\ acc.pc = "append"
    /\ spectators' = IF Len(spectators) >= 1 THEN spectators
                     ELSE Append(spectators, acc.conn)
    /\ acc' = [pc |-> "accept", conn |-> 0]
    /\ UNCHANGED << leftY, rightY, ball, lScore, rScore, winner_recorded, move,
                    ready, sock, net, listening, pc, ingest, ticks, events,
                    state_line, rcvd, wins, recorded, last, config >>
    /\ UNCHANGED << log, libVars >>

\* lines 236-238: under the lock, the connection is appended to the list
AppendSpectator ==
    /\ pc # "done"
    /\ acc.pc = "append"
    /\ spectators' = Append(spectators, acc.conn)
    /\ acc' = [pc |-> "accept", conn |-> 0]
    /\ UNCHANGED << leftY, rightY, ball, lScore, rScore, winner_recorded, move,
                    ready, sock, net, listening, pc, ingest, ticks, events,
                    state_line, rcvd, wins, recorded, last,
                    config >>
    /\ UNCHANGED << log, libVars >>

----------------------------------------------------------------------------
(* The peers *)

\* a client goes away: its end of the connection is closed or reset
Disconnect(c) ==
    /\ pc # "done"
    /\ sock[c] # "none"
    /\ net[c] = "up"
    /\ events < MaxEvents
    /\ events' = events + 1
    /\ net' = [net EXCEPT ![c] = "broken"]
    /\ UNCHANGED << leftY, rightY, ball, lScore, rScore, winner_recorded, move,
                    ready, spectators, sock, listening, pc, ingest, acc, ticks,
                    state_line, rcvd, wins, recorded, last,
                    config >>
    /\ UNCHANGED << log, libVars >>

----------------------------------------------------------------------------
(* The byte stream of handle_client_input: text is a sequence of characters *)

\* the most lines a client's script holds
MaxLines == 2

NL == "\n"
cUp == << "u", "p" >>
cDown == << "d", "o", "w", "n" >>
cReady == << "r", "e", "a", "d", "y" >>

\* the characters str.strip() removes, as far as the scripts use them
Whitespace == {" ", "\t", "\r", NL}

RECURSIVE lstrip(_)
lstrip(s) == IF s # << >> /\ Head(s) \in Whitespace THEN lstrip(Tail(s)) ELSE s

RECURSIVE rstrip(_)
rstrip(s) ==
    IF s # << >> /\ s[Len(s)] \in Whitespace
    THEN rstrip(SubSeq(s, 1, Len(s) - 1)) ELSE s

\* line 197: line.strip()
strip(s) == rstrip(lstrip(s))

\* every line that is not a command clears the intent
TextUnknownIsEmpty(s) ==
    IF s = cUp THEN "up"
    ELSE IF s = cDown THEN "down"
    ELSE IF s = cReady THEN "ready" ELSE ""

\* lines 198-200: what the comparisons of msg tell apart
Text(s) ==
    IF s = cUp THEN "up"
    ELSE IF s = cDown THEN "down"
    ELSE IF s = << >> THEN ""
    ELSE IF s = cReady THEN "ready" ELSE "other"

\* line 196: the index of the first newline of buf
FirstNL(buf) ==
    CHOOSE i \in 1..Len(buf) : buf[i] = NL /\ \A j \in 1..(i - 1) : buf[j] # NL

\* lines 195-201: the while loop, from buffer buf, intent mv, ready flag rd
\* and the lines ls split off so far
RECURSIVE Drain(_, _, _, _)
Drain(buf, mv, rd, ls) ==
    IF NL \notin Range(buf)
    THEN [buffer |-> buf, move |-> mv, ready |-> rd, lines |-> ls]
    ELSE LET i    == FirstNL(buf)
             line == SubSeq(buf, 1, i - 1)
             msg  == Text(strip(line))
         IN  Drain(SubSeq(buf, i + 1, Len(buf)),
                   IF msg \in {"up", "down", ""} THEN msg ELSE mv,
                   IF msg \notin {"up", "down", ""} /\ msg = "ready"
                   THEN TRUE ELSE rd,
                   Append(ls, line))

\* lines 189-201: recv returns the next n bytes of controller c's stream
Recv(c, n) ==
    /\ pc = "run"
    /\ ingest[c] = "running"
    /\ sock[c] = "open"
    /\ n \in 1..Len(wire[c])
    /\ LET data == SubSeq(wire[c], 1, n)
           d    == Drain(buffer[c] \o data, move[c], ready[c], lines[c])
       IN  /\ wire' = [wire EXCEPT ![c] = SubSeq(wire[c], n + 1, Len(wire[c]))]
           /\ buffer' = [buffer EXCEPT ![c] = d.buffer]
           /\ move' = [move EXCEPT ![c] = d.move]
           /\ ready' = [ready EXCEPT ![c] = d.ready]
           /\ lines' = [lines EXCEPT ![c] = d.lines]
    /\ UNCHANGED << leftY, rightY, ball, lScore, rScore, winner_recorded,
                    spectators, sock, net, listening, pc, ingest, acc, ticks,
                    events, state_line, rcvd, wins, recorded, last, config,
                    log >>
    /\ UNCHANGED << script, codecVars, lbVars, userVars, lockVars, clientVars >>

\* lines 189-192: the client has sent its whole script and closed: recv
\* returns no data, and leaving the with block closes the socket
RecvEnd(c) ==
    /\ pc = "run"
    /\ ingest[c] = "running"
    /\ sock[c] = "open"
    /\ wire[c] = << >>
    /\ ingest' = [ingest EXCEPT ![c] = "exited"]
    /\ sock' = [sock EXCEPT ![c] = "closed"]
    /\ net' = [net EXCEPT ![c] = "closed"]
    /\ UNCHANGED << leftY, rightY, ball, lScore, rScore, winner_recorded, move,
                    ready, spectators, listening, pc, acc, ticks, events,
                    state_line, rcvd, wins, recorded, last, config, log >>
    /\ UNCHANGED << ingVars, codecVars, lbVars, userVars, lockVars, clientVars >>

\* the lines a client sends: the commands, an empty line, an unknown line and
\* a command wrapped in white space
LineTexts == {cUp, cDown, << >>, cReady, << "x" >>, << " ", "u", "p", "\r" >>}

\* what a client has typed after its last newline when it closes
Tails == {<< >>, cUp}

RECURSIVE Join(_)
Join(ls) == IF ls = << >> THEN << >> ELSE Head(ls) \o << NL >> \o Join(Tail(ls))

\* the byte streams of the left client: up to MaxLines lines and a tail
Scripts ==
    {Join(ls) \o t : ls \in UNION {[1..k -> LineTexts] : k \in 0..MaxLines},
                     t \in Tails}

\* the length of the longest script: each line a ready and its newline
StreamLen == 6 * MaxLines + 2

\* the byte stream of the right client
RightScript == Join(<< cReady >>)

\* no client has sent a byte
IngIdle ==
    /\ wire = [c \in Controllers |-> << >>]
    /\ buffer = [c \in Controllers |-> << >>]
    /\ lines = [c \in Controllers |-> << >>]
    /\ script = [c \in Controllers |-> << >>]

----------------------------------------------------------------------------
(* The state line on the wire: pongServer.py builds it, pongClient.py's
   recv_state reads it *)

DigitChars == << "0", "1", "2", "3", "4", "5", "6", "7", "8", "9" >>

\* the decimal digits of a natural number
RECURSIVE Digits(_)
Digits(n) ==
    IF n < 10 THEN << DigitChars[n + 1] >>
    ELSE Digits(n \div 10) \o << DigitChars[(n % 10) + 1] >>

\* formatting that loses the sign
StrUnsigned(n) == IF n < 0 THEN Digits(-n) ELSE Digits(n)

\* lines 433-436: an int formatted by an f-string
Str(n) == IF n < 0 THEN << "-" >> \o Digits(-n) ELSE Digits(n)

\* lines 433-437: the state line of snapshot t, as text
EncodeLine(t) ==
    Str(t[1]) \o << " " >> \o Str(t[2]) \o << " " >> \o Str(t[3]) \o << " " >>
    \o Str(t[4]) \o << " " >> \o Str(t[5]) \o << " " >> \o Str(t[6]) \o << NL >>

\* recv_state line 68: str.split(), the fields between runs of white space
RECURSIVE split(_)
split(s) ==
    LET t == lstrip(s)
    IN  IF t = << >> THEN << >>
        ELSE LET ends == {i \in 1..Len(t) : t[i] \in Whitespace}
                 k    == IF ends = {} THEN Len(t) + 1
                         ELSE CHOOSE i \in ends : \A j \in ends : i <= j
             IN  << SubSeq(t, 1, k - 1) >> \o split(SubSeq(t, k, Len(t)))

\* recv_state line 72: the texts int() accepts: a sign, if any, and digits
IsInt(f) ==
    LET d == IF f # << >> /\ Head(f) \in {"-", "+"} THEN Tail(f) ELSE f
    IN  d # << >> /\ \A i \in 1..Len(d) : \E v \in 1..10 : DigitChars[v] = d[i]

RECURSIVE Value(_)
Value(d) ==
    IF d = << >> THEN 0
    ELSE 10 * Value(SubSeq(d, 1, Len(d) - 1))
         + ((CHOOSE v \in 1..10 : DigitChars[v] = d[Len(d)]) - 1)

\* recv_state line 72: int(f)
int(f) ==
    IF Head(f) = "-" THEN -Value(Tail(f))
    ELSE IF Head(f) = "+" THEN Value(Tail(f)) ELSE Value(f)

\* recv_state's None
None == << >>

\* recv_state lines 63-76, given the line readline returned
recv_state(line) ==
    IF line = << >> THEN None
    ELSE LET parts == split(strip(line))
         IN  IF Len(parts) # 6 THEN None
             ELSE IF \E i \in 1..6 : ~IsInt(parts[i]) THEN None
             ELSE [i \in 1..6 |-> int(parts[i])]

\* snapshots the loop builds a line from: paddles on their bounds and at the
\* start, the ball on the edges, at the start and above the top wall, scores
\* from none to WIN_SCORE
Snapshots ==
    {10, paddleStartPosY, 420} \X {paddleStartPosY} \X {0, ballStartX, SCREEN_WIDTH}
        \X {-3, ballStartY, 475} \X {0, WIN_SCORE} \X {0, WIN_SCORE - 1}

\* lines that are not six integer fields: five fields, seven fields, a field
\* that is a word, a field that is a fraction, the config line, an empty
\* line, and the end of the stream
BadLines ==
    { Str(10) \o << " " >> \o Str(215) \o << " " >> \o Str(320) \o << " " >>
          \o Str(240) \o << " " >> \o Str(0) \o << NL >>,
      EncodeLine(<< 10, 215, 320, 240, 0, 0 >>) \o Str(7) \o << NL >>,
      Str(10) \o << " " >> \o Str(215) \o << " " >> \o Str(320) \o << " " >>
          \o Str(240) \o << " " >> \o Str(0) \o << " ", "x", NL >>,
      Str(10) \o << " " >> \o Str(215) \o << " " >> \o Str(320) \o << " " >>
          \o Str(240) \o << " " >> \o Str(0) \o << " ", "1", ".", "5", NL >>,
      Str(SCREEN_WIDTH) \o << " " >> \o Str(SCREEN_HEIGHT)
          \o << " ", "s", "p", "e", "c", NL >>,
      << NL >>,
      << >> }

\* lines 432-437: the loop builds the state line of snapshot snap
Encode ==
    /\ codec = "build"
    /\ text' = EncodeLine(snap)
    /\ codec' = "wire"
    /\ UNCHANGED << snap, decoded >>
    /\ UNCHANGED << sessionVars, ingVars, lbVars, userVars, lockVars, clientVars >>

\* recv_state lines 63-76 on the line on the wire
Decode ==
    /\ codec = "wire"
    /\ decoded' = recv_state(text)
    /\ codec' = "read"
    /\ UNCHANGED << snap, text >>
    /\ UNCHANGED << sessionVars, ingVars, lbVars, userVars, lockVars, clientVars >>

\* no state line is on its way
CodecIdle ==
    /\ snap = None
    /\ text = << >>
    /\ decoded = None
    /\ codec = "idle"

----------------------------------------------------------------------------
(* The leaderboard: record_win and LeaderboardHandler.do_GET.  The dict is
   a sequence of entries in insertion order, as dict.items() yields them. *)

\* the most calls of record_win one thread makes
MaxCalls == 1

\* the threads that call record_win, and the thread of the HTTP server
Callers == {1, 2}
Reader == 3

\* identifiers passed to record_win: empty, lower case, padded upper case,
\* another one, a blank
Ids == {<< >>, << "a", "b" >>, << " ", "A", "B", " " >>, << "c" >>, << " " >>}

\* str.upper() of one character
Up(ch) == IF ch = "a" THEN "A" ELSE IF ch = "b" THEN "B"
          ELSE IF ch = "c" THEN "C" ELSE ch

\* str.upper()
upper(s) == [i \in 1..Len(s) |-> Up(s[i])]

\* line 83: initials.strip().upper()
Normalise(id) == upper(strip(id))

\* the keys of the dict
Keys(b) == {b[i].k : i \in 1..Len(b)}

\* leaderboard.get(k, 0)
Get(b, k) ==
    IF k \in Keys(b) THEN (CHOOSE e \in Range(b) : e.k = k).n ELSE 0

\* leaderboard[k] = n: a new key goes to the end, an old one keeps its place
Put(b, k, n) ==
    IF k \in Keys(b)
    THEN [i \in 1..Len(b) |-> IF b[i].k = k THEN [k |-> k, n |-> n] ELSE b[i]]
    ELSE Append(b, [k |-> k, n |-> n])

\* entry e put into the sorted list q behind every entry that has at least
\* its count: the sort is stable
RECURSIVE Insert(_, _)
Insert(q, e) ==
    IF q = << >> THEN << e >>
    ELSE IF Head(q).n >= e.n THEN << Head(q) >> \o Insert(Tail(q), e)
    ELSE << e >> \o q

\* line 106: sorted(leaderboard.items(), key=lambda kv: kv[1], reverse=True)
RECURSIVE sorted(_)
sorted(b) ==
    IF b = << >> THEN << >>
    ELSE Insert(sorted(SubSeq(b, 1, Len(b) - 1)), b[Len(b)])

\* a thread that is in none of the two functions
Away == [pc |-> "idle", arg |-> << >>, id |-> << >>, tmp |-> 0, n |-> 0]

\* with leaderboard_lock, entered whether or not the lock is free
LockFreeAlways == TRUE

\* with leaderboard_lock: the lock can be taken
LockFree == leaderboard_lock = 0

\* lines 81-83: record_win(id) is called; an empty id returns at once
Call(t, id) ==
    /\ lbt[t].pc = "idle"
    /\ lbt[t].n < MaxCalls
    /\ IF id = << >>
       THEN /\ lbt' = [lbt EXCEPT ![t].n = @ + 1]
            /\ called' = Append(called, id)
       ELSE /\ lbt' = [lbt EXCEPT ![t].pc = "lock", ![t].arg = id,
                                  ![t].id = Normalise(id),
                                  ![t].n = @ + 1]
            /\ called' = called
    /\ UNCHANGED << leaderboard, lbfile, leaderboard_lock, items, loaded >>
    /\ UNCHANGED << sessionVars, ingVars, codecVars, userVars, lockVars, clientVars >>

\* line 84: with leaderboard_lock
Acquire(t) ==
    /\ lbt[t].pc = "lock"
    /\ LockFree
    /\ leaderboard_lock' = t
    /\ lbt' = [lbt EXCEPT ![t].pc = "get"]
    /\ UNCHANGED << leaderboard, lbfile, items, called, loaded >>
    /\ UNCHANGED << sessionVars, ingVars, codecVars, userVars, lockVars, clientVars >>

\* line 85, right-hand side: leaderboard.get(initials, 0)
ReadCount(t) ==
    /\ lbt[t].pc = "get"
    /\ lbt' = [lbt EXCEPT ![t].pc = "set", ![t].tmp = Get(leaderboard, lbt[t].id)]
    /\ UNCHANGED << leaderboard, lbfile, leaderboard_lock, items, called, loaded >>
    /\ UNCHANGED << sessionVars, ingVars, codecVars, userVars, lockVars, clientVars >>

\* line 85, the assignment
WriteCount(t) ==
    /\ lbt[t].pc = "set"
    /\ leaderboard' = Put(leaderboard, lbt[t].id, lbt[t].tmp + 1)
    /\ called' = Append(called, lbt[t].arg)
    /\ lbt' = [lbt EXCEPT ![t].pc = "save"]
    /\ UNCHANGED << lbfile, leaderboard_lock, items, loaded >>
    /\ UNCHANGED << sessionVars, ingVars, codecVars, userVars, lockVars, clientVars >>

\* line 86 and the end of the with block: save_leaderboard, release
SaveRelease(t) ==
    /\ lbt[t].pc = "save"
    /\ lbfile' = leaderboard
    /\ leaderboard_lock' = IF leaderboard_lock = t THEN 0 ELSE leaderboard_lock
    /\ lbt' = [lbt EXCEPT ![t].pc = "idle", ![t].arg = << >>, ![t].id = << >>,
                           ![t].tmp = 0]
    /\ UNCHANGED << leaderboard, items, called, loaded >>
    /\ UNCHANGED << sessionVars, ingVars, codecVars, userVars, lockVars, clientVars >>

\* do_GET line 105: with leaderboard_lock
GetAcquire ==
    /\ lbt[Reader].pc = "idle"
    /\ LockFree
    /\ leaderboard_lock' = Reader
    /\ lbt' = [lbt EXCEPT ![Reader].pc = "sort"]
    /\ UNCHANGED << leaderboard, lbfile, items, called, loaded >>
    /\ UNCHANGED << sessionVars, ingVars, codecVars, userVars, lockVars, clientVars >>

\* do_GET line 106 and the end of the with block: the rows are those of items
GetSort ==
    /\ lbt[Reader].pc = "sort"
    /\ items' = sorted(leaderboard)
    /\ leaderboard_lock' = IF leaderboard_lock = Reader THEN 0 ELSE leaderboard_lock
    /\ lbt' = [lbt EXCEPT ![Reader].pc = "idle"]
    /\ UNCHANGED << leaderboard, lbfile, called, loaded >>
    /\ UNCHANGED << sessionVars, ingVars, codecVars, userVars, lockVars, clientVars >>

\* leaderboards load_leaderboard finds at import: none, or one with two
\* entries, the second with more wins
StartBoards ==
    {<< >>, << [k |-> << "C" >>, n |-> 1], [k |-> << "A", "B" >>, n |-> 2] >>}

\* nobody is in record_win or do_GET
LbIdle ==
    /\ leaderboard = << >>
    /\ lbfile = << >>
    /\ leaderboard_lock = 0
    /\ lbt = [t \in Callers \cup {Reader} |-> Away]
    /\ items = << >>
    /\ called = << >>
    /\ loaded = << >>

----------------------------------------------------------------------------
(* The credential store of security.py: register_user and authenticate on
   the users file *)

\* the most requests the callers of security.py make altogether
MaxRequests == 3

\* the threads that call register_user and authenticate
Clients == {1, 2}

\* usernames as typed: empty, a name, the same name padded, another name
Usernames == {<< >>, << "a" >>, << " ", "a" >>, << "b" >>}
Passwords == {"p", "q"}
Salts == {"s1", "s2"}

\* hash_password and base64: the stored text is a function of salt and
\* password, and no two passwords share it under one salt
Stored(salt, password) == [salt |-> salt, hash |-> << "pbkdf2", salt, password >>]

\* verify_password: the hash recomputed with the stored salt is the stored one
verify_password(stored, password) ==
    Stored(stored.salt, password).hash = stored.hash

\* a thread that is in none of the two functions
Out == [pc |-> "idle", name |-> << >>, pw |-> "", users |-> << >>]

\* the requests made so far
Requests == Len(regs) + Cardinality(auths) + Cardinality({t \in Clients : ut[t].pc # "idle"})

\* lines 98-100: register_user(username, password) is called; an empty
\* stripped username returns False
Register(t, username, password) ==
    /\ ut[t].pc = "idle"
    /\ Requests < MaxRequests
    /\ IF strip(username) = << >>
       THEN /\ regs' = Append(regs, [name |-> << >>, pw |-> password, ret |-> FALSE,
                                     same |-> TRUE])
            /\ ut' = ut
       ELSE /\ ut' = [ut EXCEPT ![t] = [pc |-> "load", name |-> strip(username),
                                        pw |-> password, users |-> << >>]]
            /\ regs' = regs
    /\ UNCHANGED << users, auths >>
    /\ UNCHANGED << sessionVars, ingVars, codecVars, lbVars, lockVars, clientVars >>

\* line 101: users = load_users()
RegisterLoad(t) ==
    /\ ut[t].pc = "load"
    /\ ut' = [ut EXCEPT ![t].pc = "check", ![t].users = users]
    /\ UNCHANGED << users, regs, auths >>
    /\ UNCHANGED << sessionVars, ingVars, codecVars, lbVars, lockVars, clientVars >>

\* lines 102-107: the username is looked up in the dict that was loaded; a
\* new one is added with its salted hash, the dict is saved
RegisterSave(t, salt) ==
    /\ ut[t].pc = "check"
    /\ LET known == ut[t].name \in DOMAIN ut[t].users
           new   == [u \in DOMAIN ut[t].users \cup {ut[t].name} |->
                       IF u = ut[t].name THEN Stored(salt, ut[t].pw)
                       ELSE ut[t].users[u]]
       IN  /\ users' = IF known THEN users ELSE new
           /\ regs' = Append(regs, [name |-> ut[t].name, pw |-> ut[t].pw,
                                    ret |-> ~known,
                                    same |-> known => users' = users])
    /\ ut' = [ut EXCEPT ![t] = Out]
    /\ UNCHANGED auths
    /\ UNCHANGED << sessionVars, ingVars, codecVars, lbVars, lockVars, clientVars >>

\* lines 118-123: authenticate(username, password)
Authenticate(t, username, password) ==
    /\ ut[t].pc = "idle"
    /\ Requests < MaxRequests
    /\ LET name == strip(username)
           ret  == IF name \notin DOMAIN users THEN FALSE
                   ELSE verify_password(users[name], password)
       IN  auths' = auths \cup
               {[name |-> name, pw |-> password, ret |-> ret,
                 registered |-> \E i \in 1..Len(regs) :
                     regs[i].ret /\ regs[i].name = name /\ regs[i].pw = password,
                 unknown |-> \A i \in 1..Len(regs) :
                     regs[i].ret => regs[i].name # name]}
    /\ UNCHANGED << users, ut, regs >>
    /\ UNCHANGED << sessionVars, ingVars, codecVars, lbVars, lockVars, clientVars >>

\* nobody has called security.py and there is no users file
UsersIdle ==
    /\ users = << >>
    /\ ut = [t \in Clients |-> Out]
    /\ regs = << >>
    /\ auths = {}

----------------------------------------------------------------------------
(* The spectators list under spectators_lock, one statement at a time: the
   broadcast and the teardown of run_server and the append of
   accept_spectators *)

\* the session's variables other than the list, the sockets and the peers
gameVars == << leftY, rightY, ball, lScore, rScore, winner_recorded, move,
               ready, listening, pc, ingest, acc, ticks, events, state_line,
               rcvd, wins, recorded, last, config, log >>

\* the main thread between two broadcasts, and the acceptor in accept()
Looping == [pc |-> "loop", i |-> 0, dead |-> << >>, seen |-> << >>]
Accepting == [pc |-> "accept", conn |-> 0]

\* with spectators_lock, entered whether or not the lock is free
SpecLockFreeAlways == TRUE

\* with spectators_lock: the lock can be taken
SpecLockFree == spectators_lock = "free"

\* line 447: the main thread takes the lock for the broadcast
BcAcquire ==
    /\ mt.pc = "loop"
    /\ SpecLockFree
    /\ spectators_lock' = "main"
    /\ mt' = [pc |-> "iter", i |-> 1, dead |-> << >>, seen |-> spectators]
    /\ UNCHANGED << spectators, sock, net, at >>

\* lines 449-454: one round of the for loop: the next spectator of the list
\* is sent the line, and noted when the send raises
BcSend ==
    /\ mt.pc = "iter"
    /\ mt.i <= Len(spectators)
    /\ mt' = [mt EXCEPT !.i = @ + 1,
                        !.dead = IF SendOK(spectators[mt.i]) THEN @
                                 ELSE Append(@, spectators[mt.i])]
    /\ UNCHANGED << spectators, sock, net, spectators_lock, at >>

\* line 449: the for loop has reached the end of the list
BcEndIter ==
    /\ mt.pc = "iter"
    /\ mt.i > Len(spectators)
    /\ mt' = [mt EXCEPT !.pc = "remove"]
    /\ UNCHANGED << spectators, sock, net, spectators_lock, at >>

\* lines 455-460: the next dead spectator is closed and removed
BcRemove ==
    /\ mt.pc = "remove"
    /\ mt.dead # << >>
    /\ sock' = [sock EXCEPT ![Head(mt.dead)] = "closed"]
    /\ spectators' = RemoveDead(spectators, {Head(mt.dead)})
    /\ mt' = [mt EXCEPT !.dead = Tail(@)]
    /\ UNCHANGED << net, spectators_lock, at >>

\* the end of the with block of line 447
BcRelease ==
    /\ mt.pc = "remove"
    /\ mt.dead = << >>
    /\ spectators_lock' = IF spectators_lock = "main" THEN "free" ELSE spectators_lock
    /\ mt' = Looping
    /\ UNCHANGED << spectators, sock, net, at >>

\* lines 443-445, 465-477: a send to a player raises, the loop ends and the
\* finally block takes the lock
TdAcquire ==
    /\ mt.pc = "loop"
    /\ SpecLockFree
    /\ spectators_lock' = "main"
    /\ mt' = [pc |-> "close", i |-> 1, dead |-> << >>, seen |-> spectators]
    /\ UNCHANGED << spectators, sock, net, at >>

\* lines 478-482: one round of the for loop of the finally block
TdClose ==
    /\ mt.pc = "close"
    /\ mt.i <= Len(spectators)
    /\ sock' = [sock EXCEPT ![spectators[mt.i]] = "closed"]
    /\ mt' = [mt EXCEPT !.i = @ + 1]
    /\ UNCHANGED << spectators, net, spectators_lock, at >>

\* line 483 and the end of the with block: the list is cleared
TdClear ==
    /\ mt.pc = "close"
    /\ mt.i > Len(spectators)
    /\ spectators' = << >>
    /\ spectators_lock' = IF spectators_lock = "main" THEN "free" ELSE spectators_lock
    /\ mt' = [pc |-> "done", i |-> 0, dead |-> << >>, seen |-> << >>]
    /\ UNCHANGED << sock, net, at >>

\* lines 221-230: a spectator is accepted and sent its config line
AcAccept(c) ==
    /\ at.pc = "accept"
    /\ sock[c] = "none"
    /\ sock' = [sock EXCEPT ![c] = "open"]
    /\ at' = [pc |-> "lock", conn |-> c]
    /\ UNCHANGED << spectators, net, spectators_lock, mt >>

\* line 236: the acceptor takes the lock
AcAcquire ==
    /\ at.pc = "lock"
    /\ SpecLockFree
    /\ spectators_lock' = "acceptor"
    /\ at' = [at EXCEPT !.pc = "append"]
    /\ UNCHANGED << spectators, sock, net, mt >>

\* line 237 and the end of the with block: the connection is appended
AcAppend ==
    /\ at.pc = "append"
    /\ spectators' = Append(spectators, at.conn)
    /\ spectators_lock' = IF spectators_lock = "acceptor" THEN "free"
                          ELSE spectators_lock
    /\ at' = Accepting
    /\ UNCHANGED << sock, net, mt >>

\* a spectator goes away
Leave(c) ==
    /\ sock[c] = "open"
    /\ net[c] = "up"
    /\ net' = [net EXCEPT ![c] = "broken"]
    /\ UNCHANGED << spectators, sock, spectators_lock, mt, at >>

\* the lock is free, the main thread between two broadcasts
LockIdle ==
    /\ spectators_lock = "free"
    /\ mt = Looping
    /\ at = Accepting

----------------------------------------------------------------------------
(* The client: receive_loop and the loop of playGame, pongClient.py.  The
   receiver writes shared_state one key at a time and the loop reads it one
   key at a time, both inside `with state_lock`. *)

\* the most iterations of playGame's loop
MaxFrames == 2

\* the most lines the server sends before it stops or closes
MaxStream == 2

\* the most events pygame.event.get() returns in one iteration
MaxKeys == 2

\* playGame lines 140-148: shared_state before the first state line
Defaults ==
    << SCREEN_HEIGHT \div 2, SCREEN_HEIGHT \div 2, SCREEN_WIDTH \div 2,
       SCREEN_HEIGHT \div 2, 0, 0 >>

\* lines 243, 286, 287: the scores show a finished game (WIN_SCORE, line 39)
game_over(l, r) == l >= WIN_SCORE \/ r >= WIN_SCORE

\* mutant of StateLockFree: state_lock keeps nobody out
StateLockFreeAlways == TRUE

\* lines 99, 106, 258, 277: `with state_lock` can be entered
StateLockFree == state_lock = "free"

\* the events pygame.event.get() returns
KeyEvents == {"QUIT", "K_DOWN", "K_UP", "K_r", "KEYUP"}

\* mutant of ReadyDue: every press of R after a finished game sends
ReadyDueEveryPress(spectator, l, r, sent) == ~spectator /\ game_over(l, r)

\* lines 236, 243, 244: a press of R sends ready
ReadyDue(spectator, l, r, sent) == ~spectator /\ game_over(l, r) /\ ~sent

\* lines 229-255: the body of the for loop for the event e; ok tells whether
\* sendall works
KeyEvent(e, ok) ==
    /\ cl.pc = "events"
    /\ cl.frames < MaxFrames
    /\ cl.keys < MaxKeys
    /\ LET sp  == cl.playerPaddle = "spec"
           m   == IF sp THEN cl.moving
                  ELSE IF e = "K_DOWN" THEN "down"
                  ELSE IF e = "K_UP" THEN "up"
                  ELSE IF e = "KEYUP" THEN "" ELSE cl.moving
           due == e = "K_r" /\ ReadyDue(sp, cl.lScore, cl.rScore, cl.sent_ready)
       IN  /\ cl' = [cl EXCEPT
                        !.moving = m,
                        !.running = IF e = "QUIT" \/ (due /\ ~ok) THEN FALSE
                                    ELSE cl.running,
                        !.sent_ready = IF due /\ ok THEN TRUE ELSE cl.sent_ready,
                        !.keys = cl.keys + 1]
           /\ hist' = IF due /\ ok
                      THEN Append(hist, [k |-> "ready", l |-> cl.lScore,
                                         r |-> cl.rScore])
                      ELSE hist
           /\ outbox' = IF due /\ ok THEN outbox \cup {"ready"} ELSE outbox
    /\ UNCHANGED << sock_file, shared_state, state_lock, rt, got >>

\* line 229: the for loop has no more events
EventsDone ==
    /\ cl.pc = "events"
    /\ cl.frames < MaxFrames
    /\ cl' = [cl EXCEPT !.pc = "check", !.keys = 0]
    /\ UNCHANGED << sock_file, shared_state, state_lock, rt, got, hist, outbox >>

\* lines 258-261: the loop looks at connected
Check ==
    /\ cl.pc = "check"
    /\ StateLockFree
    /\ cl' = [cl EXCEPT !.pc = "send",
                        !.running = IF shared_state.connected THEN cl.running
                                    ELSE FALSE]
    /\ UNCHANGED << sock_file, shared_state, state_lock, rt, got, hist, outbox >>

\* lines 267-272: the movement line
SendMove(ok) ==
    /\ cl.pc = "send"
    /\ LET move_str == IF cl.playerPaddle = "spec" THEN "" ELSE cl.moving
       IN  outbox' = IF ok THEN outbox \cup {move_str} ELSE outbox
    /\ cl' = [cl EXCEPT !.pc = "lock",
                        !.running = IF ok THEN cl.running ELSE FALSE]
    /\ UNCHANGED << sock_file, shared_state, state_lock, rt, got, hist >>

\* line 277: the loop enters `with state_lock`
ReadAcquire ==
    /\ cl.pc = "lock"
    /\ StateLockFree
    /\ state_lock' = "main"
    /\ cl' = [cl EXCEPT !.pc = "read", !.view = << >>]
    /\ UNCHANGED << sock_file, shared_state, rt, got, hist, outbox >>

\* lines 278-283: the loop reads the next key
ReadKey ==
    /\ cl.pc = "read"
    /\ Len(cl.view) < 6
    /\ LET i == Len(cl.view) + 1
           v == shared_state.vals[i]
       IN  cl' = [cl EXCEPT !.view = Append(cl.view, v),
                            !.lScore = IF i = 5 THEN v ELSE cl.lScore,
                            !.rScore = IF i = 6 THEN v ELSE cl.rScore]
    /\ UNCHANGED << sock_file, shared_state, state_lock, rt, got, hist, outbox >>

\* line 283: the loop leaves `with state_lock`
ReadRelease ==
    /\ cl.pc = "read"
    /\ Len(cl.view) = 6
    /\ state_lock' = IF state_lock = "main" THEN "free" ELSE state_lock
    /\ cl' = [cl EXCEPT !.pc = "draw"]
    /\ UNCHANGED << sock_file, shared_state, rt, got, hist, outbox >>

\* lines 286-345 and the test of line 224: the rest of the iteration
Draw ==
    /\ cl.pc = "draw"
    /\ LET game_was_over == game_over(cl.prev_lScore, cl.prev_rScore)
           game_is_over  == game_over(cl.lScore, cl.rScore)
       IN  cl' = [cl EXCEPT
                    !.sent_ready = IF game_was_over /\ ~game_is_over THEN FALSE
                                   ELSE cl.sent_ready,
                    !.prev_lScore = cl.lScore,
                    !.prev_rScore = cl.rScore,
                    !.frames = cl.frames + 1,
                    !.late = IF cl.running /\ ~shared_state.connected
                             THEN cl.late + 1 ELSE cl.late,
                    !.pc = IF cl.running THEN "events" ELSE "done"]
    /\ hist' = Append(hist, [k |-> "obs", l |-> cl.lScore, r |-> cl.rScore])
    /\ UNCHANGED << sock_file, shared_state, state_lock, rt, got, outbox >>

\* lines 97-98: recv_state returns
RcvState ==
    /\ rt.pc = "recv"
    /\ sock_file # << >>
    /\ LET state == recv_state(Head(sock_file))
       IN  /\ rt' = [pc |-> IF state = None THEN "fail" ELSE "lock",
                     state |-> state, n |-> 0]
           /\ got' = IF state = None THEN got ELSE got \cup {state}
    /\ sock_file' = Tail(sock_file)
    /\ UNCHANGED << shared_state, state_lock, cl, hist, outbox >>

\* lines 98-102: on None the receiver sets connected to False and stops
RcvFail ==
    /\ rt.pc = "fail"
    /\ StateLockFree
    /\ shared_state' = [shared_state EXCEPT !.connected = FALSE]
    /\ rt' = [rt EXCEPT !.pc = "done"]
    /\ UNCHANGED << sock_file, state_lock, cl, got, hist, outbox >>

\* line 106: the receiver enters `with state_lock`
RcvAcquire ==
    /\ rt.pc = "lock"
    /\ StateLockFree
    /\ state_lock' = "recv"
    /\ rt' = [rt EXCEPT !.pc = "write"]
    /\ UNCHANGED << sock_file, shared_state, cl, got, hist, outbox >>

\* lines 107-112: the receiver writes the next key
RcvWrite ==
    /\ rt.pc = "write"
    /\ rt.n < 6
    /\ shared_state' = [shared_state EXCEPT !.vals[rt.n + 1] = rt.state[rt.n + 1]]
    /\ rt' = [rt EXCEPT !.n = rt.n + 1]
    /\ UNCHANGED << sock_file, state_lock, cl, got, hist, outbox >>

\* line 112: the receiver leaves `with state_lock`
RcvRelease ==
    /\ rt.pc = "write"
    /\ rt.n = 6
    /\ state_lock' = IF state_lock = "recv" THEN "free" ELSE state_lock
    /\ rt' = [pc |-> "recv", state |-> None, n |-> 0]
    /\ UNCHANGED << sock_file, shared_state, cl, got, hist, outbox >>

\* state lines the server sends a client: of a game that is won and of the
\* rematch that follows
GoodLines ==
    { EncodeLine(<< 10, 420, ballStartX, ballStartY, WIN_SCORE, 3 >>),
      EncodeLine(<< paddleStartPosY, paddleStartPosY, ballStartX, ballStartY, 0, 0 >>) }

\* what ends the receiver: a line of five fields, and the end of the stream
LastLines ==
    { Str(10) \o << " " >> \o Str(215) \o << " " >> \o Str(320) \o << " " >>
          \o Str(240) \o << " " >> \o Str(0) \o << NL >>,
      << >> }

\* what the server sends one client: state lines, then perhaps a last line
Streams ==
    UNION {[1..n -> GoodLines] : n \in 0..MaxStream}
    \cup UNION {{Append(q, e) : q \in [1..n -> GoodLines], e \in LastLines} :
                    n \in 0..(MaxStream - 1)}

\* the roles a config line gives; the loop of the right player differs from
\* that of the left player in the paddle it draws only (lines 204-213)
Roles == {"left", "spec"}

\* playGame lines 129-222 for the role the config line gave
Started(role) ==
    [pc |-> "events", playerPaddle |-> role, moving |-> "", lScore |-> 0,
     rScore |-> 0, prev_lScore |-> 0, prev_rScore |-> 0, sent_ready |-> FALSE,
     running |-> TRUE, view |-> << >>, frames |-> 0, late |-> 0, keys |-> 0]

\* no client is modelled
ClientIdle ==
    /\ sock_file = << >>
    /\ shared_state = [vals |-> Defaults, connected |-> TRUE]
    /\ state_lock = "free"
    /\ rt = [pc |-> "recv", state |-> None, n |-> 0]
    /\ cl = Started("spec")
    /\ got = {}
    /\ hist = << >>
    /\ outbox = {}

LibIdle ==
    IngIdle /\ CodecIdle /\ LbIdle /\ UsersIdle /\ LockIdle /\ ClientIdle

----------------------------------------------------------------------------
(* Initial states and the specification *)

NoLine == << >>

\* run_server up to line 361: both players accepted, the game objects built
Constructed ==
    [leftY |-> paddleStartPosY, rightY |-> paddleStartPosY,
     ball |-> Ball(ballStartX, ballStartY, -BallSpeed, 0),
     lScore |-> 0, rScore |-> 0, move |-> [c \in Controllers |-> ""],
     line |-> NoLine]

\* the game 804 iterations after Constructed when the left player has sent
\* "up" before the first iteration and nothing else was sent: the right
\* player has scored four times and the ball is about to leave on the left
RightLeads ==
    [leftY |-> 10, rightY |-> paddleStartPosY,
     ball |-> Ball(0, 364, -BallSpeed, 1),
     lScore |-> 0, rScore |-> 4,
     move |-> [c \in Controllers |-> IF c = LEFT THEN "up" ELSE ""],
     line |-> << 10, paddleStartPosY, 0, 364, 0, 4 >>]

\* the game 934 iterations after Constructed when the right player has sent
\* "down" before the first iteration and nothing else was sent: the right
\* paddle rests on the bottom wall, the left player has scored four times and
\* the ball is about to leave on the right
LeftLeads ==
    [leftY |-> paddleStartPosY, rightY |-> 420,
     ball |-> Ball(640, 365, BallSpeed, 1),
     lScore |-> 4, rScore |-> 0,
     move |-> [c \in Controllers |-> IF c = RIGHT THEN "down" ELSE ""],
     line |-> << paddleStartPosY, 420, 640, 365, 4, 0 >>]

\* the game 181 iterations after Constructed when the right player has sent
\* "down" before the first iteration and "" after the thirtieth: the ball,
\* returned by the left paddle, is about to meet the top of the right paddle
BeforePaddleHit ==
    [leftY |-> paddleStartPosY, rightY |-> 365,
     ball |-> Ball(615, 360, BallSpeed, 1),
     lScore |-> 0, rScore |-> 0,
     move |-> [c \in Controllers |-> ""],
     line |-> << paddleStartPosY, 365, 615, 360, 0, 0 >>]

\* the same game 207 iterations after Constructed: the ball, returned by the
\* right paddle, is about to meet the top wall
BeforeWallBounce ==
    [leftY |-> paddleStartPosY, rightY |-> 365,
     ball |-> Ball(495, 11, -BallSpeed, -14),
     lScore |-> 0, rScore |-> 0,
     move |-> [c \in Controllers |-> ""],
     line |-> << paddleStartPosY, 365, 495, 11, 0, 0 >>]

\* the game 584 iterations after Constructed when both players have sent
\* "up" before the first iteration and nothing else was sent: both paddles
\* rest on the top wall, each serve has passed the paddle it was served to,
\* both players have scored four times and the ball is about to leave on the
\* left
FourAll ==
    [leftY |-> 10, rightY |-> 10,
     ball |-> Ball(0, ballStartY, -BallSpeed, 0),
     lScore |-> WIN_SCORE - 1, rScore |-> WIN_SCORE - 1,
     move |-> [c \in Controllers |-> "up"],
     line |-> << 10, 10, 0, ballStartY, WIN_SCORE - 1, WIN_SCORE - 1 >>]

StartGames ==
    {Constructed, RightLeads, LeftLeads, BeforePaddleHit, BeforeWallBounce,
     FourAll}

\* the spectators list of a session no spectator has joined yet, and of one
\* whose first spectator was accepted and appended before the latest iteration
StartSpectators == {<< >>, << 3 >>}

\* the sessions start from each game with no spectator, and from RightLeads
\* also with one
StartSessions ==
    {<< g, sp >> \in StartGames \X StartSpectators :
        sp = << >> \/ g = RightLeads}

\* the connections a session that starts with spectators list sp has accepted
Accepted(g, sp) ==
    IF g = Constructed /\ sp = << >> THEN {} ELSE Controllers \cup Range(sp)

\* run_server's session with game g, spectators list sp and the connections a
\* accepted: none yet, the main thread waiting for the left player, or the
\* players and the spectators of sp, the loop running
Session(g, sp, a) ==
    /\ leftY = g.leftY
    /\ rightY = g.rightY
    /\ ball = g.ball
    /\ lScore = g.lScore
    /\ rScore = g.rScore
    /\ move = g.move
    /\ state_line = g.line
    /\ spectators = sp
    /\ sock = [c \in Conns |-> IF c \in a THEN "open" ELSE "none"]
    /\ rcvd = [c \in Conns |-> IF c \in a THEN g.line ELSE NoLine]
    /\ log = [c \in Conns |-> IF c \in a /\ g.line # NoLine THEN << 0 >> ELSE << >>]
    /\ config = [c \in Conns |->
                 IF c \notin a THEN << >>
                 ELSE IF c \in Controllers THEN << PlayerConfig(c) >>
                      ELSE << SpecConfig >>]
    /\ pc = IF a = {} THEN AcceptPc(LEFT) ELSE "run"
    /\ ingest = [c \in Controllers |-> IF a = {} THEN "idle" ELSE "running"]
    /\ acc = [pc |-> IF a = {} THEN "idle" ELSE "accept", conn |-> 0]
    /\ winner_recorded = FALSE
    /\ ready = [c \in Controllers |-> FALSE]
    /\ net = [c \in Conns |-> "up"]
    /\ listening = TRUE
    /\ ticks = 0
    /\ events = 0
    /\ wins = << >>
    /\ recorded = << >>
    /\ last = NoTick

\* run_server with its listening socket bound, waiting for the left player, or
\* a session with both players connected, its game in one of StartGames and
\* its spectators list one of StartSpectators
Init ==
    /\ \E << g, sp >> \in StartSessions : Session(g, sp, Accepted(g, sp))
    /\ LibIdle

\* a session whose two input threads have just started, each client about to
\* send its script
IngestInit ==
    /\ Session(Constructed, << >>, Controllers)
    /\ script \in [Controllers -> Scripts \cup {RightScript}]
    /\ script[LEFT] \in Scripts
    /\ script[RIGHT] = RightScript
    /\ wire = script
    /\ buffer = [c \in Controllers |-> << >>]
    /\ lines = [c \in Controllers |-> << >>]
    /\ CodecIdle
    /\ LbIdle
    /\ UsersIdle
    /\ LockIdle
    /\ ClientIdle

IngestNext ==
    \/ \E c \in Controllers, n \in 1..StreamLen : Recv(c, n)
    \/ \E c \in Controllers : RecvEnd(c)

\* the two input threads alone, each reading its client's script to its end
IngestSpec == IngestInit /\ [][IngestNext]_vars

Next ==
    \/ \E c \in Controllers : AcceptPlayer(c)
    \/ \E c \in Controllers : ConfigPlayer(c)
    \/ StartThreads
    \/ Tick
    \/ ClosePlayers
    \/ CloseSpectators
    \/ CloseServer
    \/ Return
    \/ \E c \in Controllers, msg \in Msgs : IngestLine(c, msg)
    \/ \E c \in Controllers : IngestExit(c)
    \/ \E c \in Controllers : IngestDecodeError(c)
    \/ \E c \in SpectatorConns : Accept(c)
    \/ AcceptFails
    \/ SendConfig
    \/ AppendSpectator
    \/ \E c \in Conns : Disconnect(c)

Spec == Init /\ [][Next]_vars

\* the main thread is never starved: the loop, paced by clock.tick(60), goes
\* on to its next iteration, and the finally block runs to its end
\* every guard of Tick: the value of ENABLED <<Tick>>_vars
TickEnabled == pc = "run" /\ ticks < MaxTicks

Finally == ClosePlayers \/ CloseSpectators \/ CloseServer \/ Return

\* run_server with its listening socket bound, waiting for the left player
Boot == Init /\ pc = AcceptPc(LEFT)

\* the sessions run from their start by a main thread that is never starved:
\* weak fairness of Tick, with ENABLED <<Tick>>_vars written out, and weak
\* fairness of the finally block
FairSpec ==
    /\ Boot
    /\ [][Next]_vars
    /\ []<>(~TickEnabled) \/ []<><<Tick>>_vars
    /\ WF_vars(Finally)

\* a session about to build the state line of a snapshot, or a client about
\* to read a line that is no state line
CodecInit ==
    /\ Session(Constructed, << >>, Controllers)
    /\ IngIdle
    /\ \/ snap \in Snapshots /\ text = << >> /\ codec = "build"
       \/ snap = None /\ text \in BadLines /\ codec = "wire"
    /\ decoded = None
    /\ LbIdle
    /\ UsersIdle
    /\ LockIdle
    /\ ClientIdle

CodecNext == Encode \/ Decode

\* one state line from the server's f-string to the client's recv_state
CodecSpec == CodecInit /\ [][CodecNext]_vars

\* the leaderboard as loaded at import, nobody in record_win or do_GET yet
LbInit ==
    /\ Session(Constructed, << >>, Controllers)
    /\ IngIdle
    /\ CodecIdle
    /\ leaderboard \in StartBoards
    /\ lbfile = leaderboard
    /\ leaderboard_lock = 0
    /\ lbt = [t \in Callers \cup {Reader} |-> Away]
    /\ items = << >>
    /\ called = << >>
    /\ loaded = leaderboard
    /\ UsersIdle
    /\ LockIdle
    /\ ClientIdle

LbNext ==
    \/ \E t \in Callers, id \in Ids : Call(t, id)
    \/ \E t \in Callers : Acquire(t)
    \/ \E t \in Callers : ReadCount(t)
    \/ \E t \in Callers : WriteCount(t)
    \/ \E t \in Callers : SaveRelease(t)
    \/ GetAcquire
    \/ GetSort

\* threads calling record_win while the HTTP server serves the leaderboard
LbSpec == LbInit /\ [][LbNext]_vars

\* no users file yet, nobody in register_user or authenticate
UsersInit ==
    /\ Session(Constructed, << >>, Controllers)
    /\ IngIdle
    /\ CodecIdle
    /\ LbIdle
    /\ UsersIdle
    /\ LockIdle
    /\ ClientIdle

UsersNext ==
    \/ \E t \in Clients, u \in Usernames, p \in Passwords : Register(t, u, p)
    \/ \E t \in Clients : RegisterLoad(t)
    \/ \E t \in Clients, salt \in Salts : RegisterSave(t, salt)
    \/ \E t \in Clients, u \in Usernames, p \in Passwords : Authenticate(t, u, p)

\* threads calling register_user and authenticate on the one users file
UsersSpec == UsersInit /\ [][UsersNext]_vars

\* a running session with no spectator yet, the lock free
LockInit ==
    /\ Session(Constructed, << >>, Controllers)
    /\ IngIdle
    /\ CodecIdle
    /\ LbIdle
    /\ UsersIdle
    /\ LockIdle
    /\ ClientIdle

\* a statement of the main thread or of the acceptor leaves the game, the
\* streams, the leaderboard and the users file alone
LockFrame ==
    UNCHANGED << gameVars, ingVars, codecVars, lbVars, userVars, clientVars >>

LockNext ==
    \/ BcAcquire /\ LockFrame
    \/ BcSend /\ LockFrame
    \/ BcEndIter /\ LockFrame
    \/ BcRemove /\ LockFrame
    \/ BcRelease /\ LockFrame
    \/ TdAcquire /\ LockFrame
    \/ TdClose /\ LockFrame
    \/ TdClear /\ LockFrame
    \/ \E c \in SpectatorConns : AcAccept(c) /\ LockFrame
    \/ AcAcquire /\ LockFrame
    \/ AcAppend /\ LockFrame
    \/ \E c \in SpectatorConns : Leave(c) /\ LockFrame

\* the broadcast, the teardown and the acceptor, statement by statement
LockSpec == LockInit /\ [][LockNext]_vars

\* a client that has read its config line, the server's lines on their way
ClientInit ==
    /\ Session(Constructed, << >>, Controllers)
    /\ IngIdle
    /\ CodecIdle
    /\ LbIdle
    /\ UsersIdle
    /\ LockIdle
    /\ sock_file \in Streams
    /\ shared_state = [vals |-> Defaults, connected |-> TRUE]
    /\ state_lock = "free"
    /\ rt = [pc |-> "recv", state |-> None, n |-> 0]
    /\ \E role \in Roles : cl = Started(role)
    /\ got = {}
    /\ hist = << >>
    /\ outbox = {}

\* a statement of the client leaves the server alone
ClientFrame ==
    UNCHANGED << sessionVars, ingVars, codecVars, lbVars, userVars, lockVars >>

ClientNext ==
    \/ \E e \in KeyEvents, ok \in BOOLEAN : KeyEvent(e, ok) /\ ClientFrame
    \/ EventsDone /\ ClientFrame
    \/ Check /\ ClientFrame
    \/ \E ok \in BOOLEAN : SendMove(ok) /\ ClientFrame
    \/ ReadAcquire /\ ClientFrame
    \/ ReadKey /\ ClientFrame
    \/ ReadRelease /\ ClientFrame
    \/ Draw /\ ClientFrame
    \/ RcvState /\ ClientFrame
    \/ RcvFail /\ ClientFrame
    \/ RcvAcquire /\ ClientFrame
    \/ RcvWrite /\ ClientFrame
    \/ RcvRelease /\ ClientFrame

\* the receiver thread and the loop of one client, statement by statement
ClientSpec == ClientInit /\ [][ClientNext]_vars

----------------------------------------------------------------------------
(* Properties *)

\* a step that is one iteration of the loop
TickStep == pc = "run" /\ ticks' = ticks + 1

\* sendall on connection c raises
\* the positions of the main thread once the loop has ended
Teardown == {"close_players", "close_spectators", "close_server", "quit", "done"}

SendFails(c) == sock[c] # "open" \/ net[c] # "up"

\* C1: for every round in which a score reaches WIN_SCORE, record_win is
\* called exactly once, with the identity of the controller whose score
\* reached it, whatever the interleaving of iterations, ready lines, send
\* failures and teardown: when run_server has returned, the record_win calls
\* are exactly the winners of the rounds that reached WIN_SCORE.
C1_RecordedOncePerRound == pc = "done" => recorded = wins

\* C2: record_win is called in the iteration in which a score first reaches
\* WIN_SCORE, before the state line showing that score is sent: whenever the
\* last state line shows a score at WIN_SCORE, that round's win is recorded.
C2_RecordedOnScoringTick ==
    (state_line # NoLine /\ RoundOver(state_line[5], state_line[6]))
        => Len(recorded) = Len(wins)

\* C3: while some score is at WIN_SCORE, the scores change and the phase
\* returns to Playing only in an iteration that finds both ready flags
\* true; nothing else leaves RoundOver.
C3_RematchOnlyWhenBothReady ==
    [][ (RoundOver(lScore, rScore)
          /\ (lScore' # lScore \/ rScore' # rScore \/ ~RoundOver(lScore', rScore')))
        => (TickStep /\ ready[LEFT] /\ ready[RIGHT]
              /\ lScore' = 0 /\ rScore' = 0) ]_vars

\* C3 witness: an iteration has run in RoundOver with exactly one ready flag
\* true, and the round is still over.
C3_Witness ==
    /\ RoundOver(lScore, rScore)
    /\ last.over /\ ~last.rst
    /\ last.ready[LEFT] /\ ~last.ready[RIGHT]

\* C4: the iteration that finds the round over and both ready flags true
\* resets both scores to 0, both paddles to the start position, the ball to
\* the centre going left, clears both ready flags and winner_recorded, and
\* its state line shows this reset state whatever the movement intents are.
C4_RematchResetsGame ==
    [][ (TickStep /\ RoundOver(lScore, rScore) /\ ready[LEFT] /\ ready[RIGHT])
        => (/\ lScore' = 0 /\ rScore' = 0
            /\ leftY' = paddleStartPosY /\ rightY' = paddleStartPosY
            /\ ball' = Ball(ballStartX, ballStartY, -BallSpeed, 0)
            /\ ~ready'[LEFT] /\ ~ready'[RIGHT]
            /\ ~winner_recorded'
            /\ state_line' = << paddleStartPosY, paddleStartPosY,
                                ballStartX, ballStartY, 0, 0 >>) ]_vars

\* C4 witness: the latest iteration was a rematch reset made while a
\* controller's intent was "up", and the state line shows the reset state.
C4_Witness ==
    /\ last.rst
    /\ \E c \in Controllers : move[c] = "up"
    /\ state_line = << paddleStartPosY, paddleStartPosY, ballStartX, ballStartY, 0, 0 >>

\* C5: a ready flag set while the phase is Playing does not reset the round
\* in progress: an iteration in Playing leaves the ready flags and
\* winner_recorded alone and lowers no score; and the iteration that resets
\* leaves both flags false and the phase Playing, so one pair of ready
\* lines gives one reset.
C5_RematchIdempotent ==
    [][ TickStep =>
          /\ ~RoundOver(lScore, rScore)
               => (/\ ready' = ready
                   /\ winner_recorded' = winner_recorded
                   /\ lScore' >= lScore /\ rScore' >= rScore)
          /\ (RoundOver(lScore, rScore) /\ ready[LEFT] /\ ready[RIGHT])
               => (/\ ~ready'[LEFT] /\ ~ready'[RIGHT]
                   /\ ~RoundOver(lScore', rScore')) ]_vars

\* C5 witness: an iteration has run in Playing with both ready flags true;
\* the flags are still set and no reset was made.
C5_Witness ==
    /\ ~last.over /\ ~last.rst
    /\ last.ready[LEFT] /\ last.ready[RIGHT]
    /\ ready[LEFT] /\ ready[RIGHT]
    /\ lScore + rScore > 0

\* C6: the ball position is advanced only in iterations where the phase is
\* Playing: an iteration that starts with a score at WIN_SCORE leaves the
\* ball position, and the ball position in the state line, unchanged.
C6_BallFrozenWhenRoundOver ==
    [][ (TickStep /\ RoundOver(lScore, rScore))
        => (/\ ball'.x = ball.x /\ ball'.y = ball.y
            /\ state_line'[3] = state_line[3]
            /\ state_line'[4] = state_line[4]) ]_vars

\* C6 witness: an iteration has run in RoundOver without a reset while the
\* ball has a non-zero velocity.
C6_Witness ==
    /\ RoundOver(lScore, rScore)
    /\ last.over /\ ~last.rst
    /\ ball.xVel # 0

\* C7: a failed send of the state line to either controller ends the
\* session: the loop stops and teardown starts, no spectator gets that
\* line, and afterwards no iteration runs and no state line is sent.
C7_ControllerSendFailureEndsSession ==
    /\ [][ (TickStep /\ (SendFails(LEFT) \/ SendFails(RIGHT)))
           => (/\ pc' = "close_players"
               /\ \A c \in SpectatorConns : rcvd'[c] = rcvd[c]) ]_vars
    /\ [][ (pc \in Teardown)
           => (/\ pc' \in Teardown
               /\ ticks' = ticks
               /\ state_line' = state_line
               /\ rcvd' = rcvd) ]_vars

\* C7 witness: run_server has returned after the send to the right
\* controller failed while a spectator was in the list.
C7_Witness ==
    /\ pc = "done"
    /\ net[LEFT] = "up" /\ net[RIGHT] = "broken"
    /\ last.specs # << >>
    /\ rcvd[LEFT] = state_line

\* C8: a failed send to a spectator removes exactly that spectator from the
\* list and closes it; the loop goes on, both controllers and every other
\* spectator get that iteration's line, and a closed spectator is never in
\* the list or sent to again.
C8_SpectatorSendFailureRemovesOnlyIt ==
    /\ [][ (TickStep /\ ~SendFails(LEFT) /\ ~SendFails(RIGHT))
           => (/\ pc' = "run"
               /\ rcvd'[LEFT] = state_line' /\ rcvd'[RIGHT] = state_line'
               /\ \A c \in Range(spectators) :
                    IF SendFails(c)
                    THEN /\ c \notin Range(spectators')
                         /\ sock'[c] = "closed"
                         /\ rcvd'[c] = rcvd[c]
                    ELSE /\ c \in Range(spectators')
                         /\ sock'[c] = "open"
                         /\ rcvd'[c] = state_line'
               /\ Range(spectators') \subseteq Range(spectators)) ]_vars
    /\ [][ \A c \in SpectatorConns :
             sock[c] = "closed"
               => (/\ sock'[c] = "closed"
                   /\ c \notin Range(spectators')
                   /\ rcvd'[c] = rcvd[c]) ]_vars

\* C8 witness: the first spectator, which had received a state line, was
\* removed and closed by a failed send; the loop runs on and the second
\* spectator and both controllers have the latest line.
C8_Witness ==
    /\ pc = "run"
    /\ sock[3] = "closed" /\ rcvd[3] # NoLine /\ rcvd[3] # state_line
    /\ 3 \in Range(last.specs)
    /\ 4 \in Range(spectators) /\ rcvd[4] = state_line
    /\ rcvd[LEFT] = state_line /\ rcvd[RIGHT] = state_line

\* C9 (as stated): in every iteration the same state line is sent to both
\* controllers and to every spectator in the list; nobody in the session
\* is skipped and no two recipients get different lines.
C9_EveryoneSentEveryTick ==
    ticks > 0
      => (/\ last.tried = Controllers \cup Range(last.specs)
          /\ \A c \in last.delivered : rcvd[c] = state_line)

\* C9 (amended): in every iteration in which the sends to both controllers
\* succeed, the state line is sent to both controllers and to every
\* spectator in the list; when the send to the left controller fails only
\* the left controller is sent to, when the send to the right controller
\* fails only the two controllers are; and every connection a line of that
\* iteration was delivered to got the same line.
C9_SameLineToAllWhilePlayersReachable ==
    ticks > 0
      => (/\ last.ok => last.tried = Controllers \cup Range(last.specs)
          /\ ~last.ok => last.tried \in {{LEFT}, Controllers}
          /\ last.delivered \subseteq last.tried
          /\ \A c \in last.delivered : rcvd[c] = state_line)

\* C9 witness: an iteration delivered its line to both controllers and to
\* two spectators.
C9_Witness ==
    /\ ticks > 0
    /\ last.ok
    /\ Len(last.specs) = 2
    /\ last.delivered = Controllers \cup Range(last.specs)

\* C10: whatever ends the loop, teardown closes every accepted connection
\* and the listening socket; when it is over no accepted connection is
\* open and the spectators list is empty.
C10_TeardownClosesEverything ==
    pc = "done"
      => (/\ ~listening
          /\ spectators = << >>
          /\ \A c \in Conns : sock[c] # "open")

\* controller c is gone: its stream is closed, or its input thread has
\* terminated (which closes the server's socket)
ControllerGone(c) == net[c] = "broken" \/ ingest[c] = "exited"

\* C11: a controller that is gone stays gone; the first iteration that runs
\* after it is gone fails its send and starts teardown; nothing but an
\* iteration's failed send to a controller ends the loop; and, when the main
\* thread is scheduled fairly, a controller gone while an iteration is still
\* to run is eventually followed by the end of run_server.
C11_ControllerGoneEndsSessionAtNextSend ==
    /\ [][ \A c \in Controllers :
             ControllerGone(c)
             => (/\ ControllerGone(c)'
                 /\ TickStep => (SendFails(c) /\ pc' = "close_players")) ]_vars
    /\ [][ (pc = "run" /\ pc' # "run")
           => (TickStep /\ (SendFails(LEFT) \/ SendFails(RIGHT))) ]_vars
    /\ ((\E c \in Controllers : ControllerGone(c))
            /\ pc = "run" /\ ticks < MaxTicks) ~> (pc = "done")

\* C11 witness: teardown starts after the right controller's input failed to
\* decode, its peer still being there.
C11_Witness ==
    /\ pc = "close_players"
    /\ ~last.ok
    /\ ingest[RIGHT] = "exited"
    /\ net[LEFT] = "up" /\ net[RIGHT] = "up"

\* C12: in every reachable state each paddle's vertical position is at
\* least 10 and at most 420.
C12_PaddlesWithinBounds ==
    /\ 10 <= leftY /\ leftY <= 420
    /\ 10 <= rightY /\ rightY <= 420

\* C12 witness: an iteration has run with the right paddle on the bottom
\* bound and its controller still asking for "down".
C12_Witness ==
    /\ last.ran
    /\ last.pre.rightY = 420
    /\ last.pre.move[RIGHT] = "down"
    /\ rightY = 420

\* a paddle found at y0 with intent mv is at y after the iteration: moved by
\* the per-tick speed in the direction of the intent, or left where it was
\* when the intent is none or the paddle is on the bound it is pushed against
Follows(y0, mv, y) ==
    /\ (mv = "up" /\ y0 > 10) => y = y0 - PaddleSpeed
    /\ (mv = "down" /\ y0 < 420) => y = y0 + PaddleSpeed
    /\ (mv = "" \/ (mv = "up" /\ y0 = 10) \/ (mv = "down" /\ y0 = 420)) => y = y0

\* C13 as stated: after every iteration each paddle has followed its intent,
\* unless the intent was written between the iteration's two reads of it.
C13_PaddleFollowsIntentEveryTick ==
    last.ran =>
        /\ LEFT \notin last.mid => Follows(last.pre.leftY, last.pre.move[LEFT], leftY)
        /\ RIGHT \notin last.mid =>
               Follows(last.pre.rightY, last.pre.move[RIGHT], rightY)

\* C13: after every iteration that did not perform the rematch reset each
\* paddle has followed its intent, unless the intent was written between the
\* iteration's two reads of it; after the iteration that performed the reset
\* both paddles are at their start position.
C13_PaddleFollowsIntentUnlessReset ==
    last.ran =>
        IF last.rst
        THEN leftY = paddleStartPosY /\ rightY = paddleStartPosY
        ELSE /\ LEFT \notin last.mid =>
                    Follows(last.pre.leftY, last.pre.move[LEFT], leftY)
             /\ RIGHT \notin last.mid =>
                    Follows(last.pre.rightY, last.pre.move[RIGHT], rightY)

\* C13 witness: an iteration without reset has moved the left paddle up by
\* the per-tick speed and left the right paddle, whose intent is none, alone.
C13_Witness ==
    /\ last.ran /\ ~last.rst /\ last.mid = {}
    /\ last.pre.move[LEFT] = "up" /\ leftY = last.pre.leftY - PaddleSpeed
    /\ last.pre.move[RIGHT] = "" /\ rightY = last.pre.rightY

\* C14: an iteration that finds the round over and does not start the
\* rematch still moves each paddle as its intent asks (an intent not written
\* between the iteration's two reads of it), stays in RoundOver,
\* and sends a state line showing the paddles where they now are.
C14_PaddlesFollowIntentInRoundOver ==
    (last.ran /\ last.over /\ ~last.rst) =>
        /\ RoundOver(lScore, rScore)
        /\ LEFT \notin last.mid => Follows(last.pre.leftY, last.pre.move[LEFT], leftY)
        /\ RIGHT \notin last.mid =>
               Follows(last.pre.rightY, last.pre.move[RIGHT], rightY)
        /\ state_line[1] = leftY /\ state_line[2] = rightY

\* C14 witness: two successive state lines of a round that is over show a
\* paddle at different positions.
C14_Witness ==
    /\ last.ran /\ last.over /\ ~last.rst
    /\ RoundOver(last.before[5], last.before[6])
    /\ RoundOver(state_line[5], state_line[6])
    /\ state_line[1] # last.before[1] \/ state_line[2] # last.before[2]

\* the ball, moved by its velocity, is past the right / the left edge
PastRight(b) == b.x + b.xVel > SCREEN_WIDTH
PastLeft(b) == b.x + b.xVel < 0

\* C15: the scores are never negative and are those of the last state line;
\* an iteration that does not reset leaves each score as it was or one
\* higher, never raises both, and raises one only when it found the round
\* not over and the ball left the field; the iteration that resets leaves
\* both at 0.
C15_ScoresMonotoneWithinRound ==
    /\ lScore >= 0 /\ rScore >= 0
    /\ state_line # NoLine => (state_line[5] = lScore /\ state_line[6] = rScore)
    /\ last.ran =>
         IF last.rst
         THEN lScore = 0 /\ rScore = 0
         ELSE /\ lScore - last.pre.lScore \in {0, 1}
              /\ rScore - last.pre.rScore \in {0, 1}
              /\ (lScore # last.pre.lScore \/ rScore # last.pre.rScore)
                   => /\ ~last.over
                      /\ PastRight(last.pre.ball) \/ PastLeft(last.pre.ball)
                      /\ lScore + rScore = last.pre.lScore + last.pre.rScore + 1

\* C15 witness: in one session a score was raised to WIN_SCORE and a later
\* iteration has reset both scores to 0.
C15_Witness ==
    /\ wins # << >>
    /\ last.ran /\ last.rst
    /\ last.pre.lScore + last.pre.rScore > 0
    /\ lScore = 0 /\ rScore = 0

\* C16: an iteration that finds the round not over and moves the ball past
\* the right edge raises the left score by one, leaves the right score alone
\* and puts the ball at the centre of the screen; past the left edge it is
\* the right score that is raised.
C16_OutOfBoundsScoresForOppositeSide ==
    (last.ran /\ ~last.over) =>
        /\ PastRight(last.pre.ball) =>
             /\ lScore = last.pre.lScore + 1 /\ rScore = last.pre.rScore
             /\ ball.x = SCREEN_WIDTH \div 2 /\ ball.y = SCREEN_HEIGHT \div 2
        /\ PastLeft(last.pre.ball) =>
             /\ rScore = last.pre.rScore + 1 /\ lScore = last.pre.lScore
             /\ ball.x = SCREEN_WIDTH \div 2 /\ ball.y = SCREEN_HEIGHT \div 2

\* C16 witness: the ball has just left past the right edge and the left
\* score was raised.
C16_Witness ==
    /\ last.ran /\ ~last.over
    /\ PastRight(last.pre.ball)
    /\ lScore = last.pre.lScore + 1
    /\ ball.x = SCREEN_WIDTH \div 2

\* C17: after a point the ball moves toward the side that just lost it, the
\* side whose edge the ball went past: to the right after leaving past the
\* right edge, to the left after leaving past the left edge.
C17_ServedTowardSideThatLostPoint ==
    (last.ran /\ ~last.over) =>
        /\ PastRight(last.pre.ball) => ball.xVel > 0
        /\ PastLeft(last.pre.ball) => ball.xVel < 0

\* the 5 x 5 ball at (x, y) overlaps the 10 x 50 paddle whose corner is at
\* (px, py)
OnPaddle(x, y, px, py) ==
    x < px + 10 /\ x + 5 > px /\ y < py + 50 /\ y + 5 > py

\* the 5 x 5 ball at height y overlaps the top wall (0 to 10) or the bottom
\* wall (470 to 480)
OnWall(y) == (y < 10 /\ y + 5 > 0) \/ (y < 480 /\ y + 5 > 470)

\* C18: an iteration that finds the round not over puts the ball at its
\* previous position plus its previous velocity, unless that is past the
\* left or right edge, when the ball is put at the centre; a ball that then
\* overlaps a paddle (the left one tested first) has its horizontal
\* velocity reversed and its vertical velocity set to half the offset of its
\* centre from the paddle's centre; a ball that overlaps a wall has its
\* vertical velocity inverted; otherwise the velocity is kept.
C18_BallAdvancesByVelocity ==
    (last.ran /\ ~last.over) =>
        LET b0 == last.pre.ball
            x  == b0.x + b0.xVel
            y  == b0.y + b0.yVel
            hitL == OnPaddle(x, y, 10, leftY)
            hitR == ~hitL /\ OnPaddle(x, y, 620, rightY)
            yv == IF hitL THEN ((y + 2) - (leftY + 25)) \div 2
                  ELSE IF hitR THEN ((y + 2) - (rightY + 25)) \div 2
                  ELSE b0.yVel
        IN  IF x > 640 \/ x < 0
            THEN ball.x = 320 /\ ball.y = 240
            ELSE /\ ball.x = x /\ ball.y = y
                 /\ ball.xVel = IF hitL \/ hitR THEN -b0.xVel ELSE b0.xVel
                 /\ ball.yVel = IF OnWall(y) THEN -yv ELSE yv

\* C18 witness: the ball has moved by its velocity into the top wall and
\* its vertical velocity has been inverted.
C18_Witness ==
    /\ last.ran /\ ~last.over
    /\ ball.x = last.pre.ball.x + last.pre.ball.xVel
    /\ ball.y = last.pre.ball.y + last.pre.ball.yVel
    /\ ball.y < 10
    /\ last.pre.ball.yVel < 0 /\ ball.yVel = -last.pre.ball.yVel

\* the role the claim gives to the c-th connection accepted
RoleOf(c) == IF c = 1 THEN "left" ELSE IF c = 2 THEN "right" ELSE "spec"

\* the server has accepted connection c but not yet called sendall for its
\* config line
ConfigPending(c) ==
    \/ c \in Controllers /\ pc = ConfigPc(c)
    \/ acc.pc = "config" /\ acc.conn = c

\* C19: connections are accepted in order; no connection is sent more than
\* one config line; every accepted connection whose config send has been
\* made was sent exactly one, which reads 640 480 and "left" for the first
\* connection, "right" for the second and "spec" for every later one; the
\* input threads, one per controller, are those of the first two only.
C19_RolesByOrderOfAcceptance ==
    /\ \A c \in Conns :
        /\ sock[c] # "none" => \A d \in Conns : d < c => sock[d] # "none"
        /\ sock[c] = "none" => config[c] = << >>
        /\ (sock[c] # "none" /\ ~ConfigPending(c))
             => config[c] = << << 640, 480, RoleOf(c) >> >>
        /\ ConfigPending(c) => config[c] = << >>
    /\ Cardinality({c \in Conns : config[c] # << >>
                                   /\ config[c][1][3] \in {"left", "right"}}) <= 2
    /\ DOMAIN ingest = {1, 2}

\* C19 witness: a session run from its first accept has sent "left" to the
\* first connection, "right" to the second and "spec" to the third.
C19_Witness ==
    /\ pc = "run" /\ state_line = NoLine
    /\ config[1] = << << 640, 480, "left" >> >>
    /\ config[2] = << << 640, 480, "right" >> >>
    /\ config[3] = << << 640, 480, "spec" >> >>

IsMove(l) == strip(l) \in {cUp, cDown, << >>}
IntentOf(l) == IF strip(l) = cUp THEN "up" ELSE IF strip(l) = cDown THEN "down" ELSE ""

C22_DecodeInvertsEncode ==
    codec = "read" =>
        IF snap \in Snapshots
        THEN /\ decoded = snap
             /\ text = EncodeLine(snap)
        ELSE /\ text \in BadLines
             /\ decoded = None

\* a snapshot with a negative and a three-digit coordinate has been read back
C22_Witness ==
    /\ codec = "read"
    /\ snap = << 420, 215, 640, -3, 5, 4 >>
    /\ decoded[4] = -3
    /\ decoded[1] = 420

\* C23: every record_win with a non-empty identifier has raised the count of
\* its stripped, upper-cased identifier by exactly one and changed no other
\* entry, whatever the interleaving with other calls and with reads: each
\* count is the loaded one plus the number of calls for that key, a call with
\* an empty identifier has changed nothing, the file holds the dict whenever
\* the lock is free, and the rows served are in descending order of count
C23_RecordWinCountsEveryCall ==
    /\ \A k \in {Normalise(id) : id \in Ids} \cup Keys(loaded) :
            Get(leaderboard, k) = Get(loaded, k)
                + Cardinality({i \in 1..Len(called) : called[i] # << >>
                                 /\ Normalise(called[i]) = k})
    /\ Keys(leaderboard) \subseteq {Normalise(id) : id \in Ids} \cup Keys(loaded)
    /\ leaderboard_lock = 0 => lbfile = leaderboard
    /\ \A i, j \in 1..Len(items) : i < j => items[i].n >= items[j].n

\* two threads have recorded a win for the same player under ab and " AB ",
\* and the rows were served after: that player comes first
C23_Witness ==
    /\ called = << << "a", "b" >>, << " ", "A", "B", " " >> >>
    /\ Get(leaderboard, << "A", "B" >>) = Get(loaded, << "A", "B" >>) + 2
    /\ Len(items) = Len(leaderboard)
    /\ Len(items) >= 1
    /\ items[1] = [k |-> << "A", "B" >>, n |-> Get(leaderboard, << "A", "B" >>)]
    /\ \A t \in Callers : lbt[t].pc = "idle"

\* C24: register_user has returned True for at most one call per stripped
\* username and False for an empty one, a False has left the users file as it
\* was, and authenticate has returned True exactly for a username and password
\* that a register_user before it returned True for, False for a username no
\* call has registered
C24_RegisterOncePerUsername ==
    /\ \A i, j \in 1..Len(regs) :
            regs[i].ret /\ regs[j].ret /\ regs[i].name = regs[j].name => i = j
    /\ \A i \in 1..Len(regs) :
            /\ regs[i].name = << >> => ~regs[i].ret
            /\ ~regs[i].ret => regs[i].same
    /\ \A a \in auths :
            /\ a.ret = a.registered
            /\ a.unknown => ~a.ret

\* C28: an intent written before an iteration begins and not overwritten
\* while the iteration reads it is the one the iteration's paddle update
\* acts on, and ready flags that are both set when an iteration finds the
\* round over are seen by that iteration, which starts the rematch
C28_WrittenValueUsedByNextTick ==
    last.ran =>
        /\ \A c \in Controllers \ last.mid : last.seen[c] = last.pre.move[c]
        /\ (~last.rst /\ LEFT \notin last.mid) =>
               Follows(last.pre.leftY, last.pre.move[LEFT], leftY)
        /\ (~last.rst /\ RIGHT \notin last.mid) =>
               Follows(last.pre.rightY, last.pre.move[RIGHT], rightY)
        /\ (last.over /\ last.ready[LEFT] /\ last.ready[RIGHT]) => last.rst

\* the left input thread of a session that has just started wrote up, and the
\* first iteration, which began after the write, has moved the left paddle up
C28_Witness ==
    /\ last.ran /\ ticks = 1 /\ last.before = NoLine
    /\ last.mid = {}
    /\ last.pre.move[LEFT] = "up"
    /\ last.seen[LEFT] = "up"
    /\ leftY = paddleStartPosY - PaddleSpeed

\* a step in which controller c's input thread processes a line, on its own
\* or between the two reads of an iteration
IngestWrites(c) ==
    \/ \E msg \in Msgs : IngestLine(c, msg)
    \/ TickStep /\ c \in last'.mid

\* C25 as stated: no step but one of a slot's own input thread changes the
\* slot's intent or its ready flag.
C25_OnlyIngestWritesIntentAndReady ==
    [][\A c \in Controllers :
          (move'[c] # move[c] \/ ready'[c] # ready[c]) => IngestWrites(c)]_vars

\* C25: a slot's intent is changed by its own input thread only, its ready
\* flag is set by its own input thread only, and the only other write is the
\* loop's, which clears both ready flags in the iteration that performs the
\* rematch reset.
C25_OnlyIngestWritesButLoopClearsReady ==
    [][\A c \in Controllers :
          /\ move'[c] # move[c] => IngestWrites(c)
          /\ (ready'[c] /\ ~ready[c]) => IngestWrites(c)
          /\ (ready[c] /\ ~ready'[c]) =>
                 (TickStep /\ last'.rst /\ \A d \in Controllers : ~ready'[d])]_vars

\* C25 witness: both input threads have set their flags and the loop, in the
\* iteration that reset the game, has cleared them.
C25_Witness ==
    /\ last.ran /\ last.rst
    /\ last.ready[LEFT] /\ last.ready[RIGHT]
    /\ ~ready[LEFT] /\ ~ready[RIGHT]

\* a step of controller c's input thread: a line, the end of the stream, or
\* bytes that do not decode
IngestStep(c) ==
    \/ \E msg \in Msgs : IngestLine(c, msg)
    \/ IngestExit(c)
    \/ IngestDecodeError(c)

\* C26: a step of a controller's input thread leaves the other slot's intent
\* and ready flag, both paddles, the ball, the scores and the spectators list
\* as they were.
C26_IngestTouchesOwnSlotOnly ==
    [][\A c \in Controllers :
          IngestStep(c) =>
              /\ \A d \in Controllers \ {c} :
                     move'[d] = move[d] /\ ready'[d] = ready[d]
              /\ UNCHANGED << leftY, rightY, ball, lScore, rScore, spectators >>]_vars

\* C26 witness: the left input thread has written its intent and set its flag
\* in a session that has a spectator; the right slot is as it started.
C26_Witness ==
    /\ events = 2 /\ ticks = 0
    /\ move[LEFT] = "down" /\ ready[LEFT]
    /\ ~ready[RIGHT]
    /\ spectators = << 3 >>

\* C29: neither score is above WIN_SCORE and at most one of them is
\* WIN_SCORE; an iteration that does not reset raises at most one score, by
\* one, and none when it found the round over.
C29_ScoresBoundedByWinScore ==
    /\ lScore <= WIN_SCORE /\ rScore <= WIN_SCORE
    /\ ~(lScore = WIN_SCORE /\ rScore = WIN_SCORE)
    /\ (last.ran /\ ~last.rst) =>
           /\ (lScore - last.pre.lScore) + (rScore - last.pre.rScore) \in {0, 1}
           /\ lScore >= last.pre.lScore /\ rScore >= last.pre.rScore
           /\ last.over => lScore = last.pre.lScore /\ rScore = last.pre.rScore

\* C29 witness: from four all the right side has scored the deciding point
\* and an iteration has since found the round over and left 4-5 as it was.
C29_Witness ==
    /\ last.ran /\ last.over /\ ~last.rst
    /\ lScore = WIN_SCORE - 1 /\ rScore = WIN_SCORE
    /\ last.pre.lScore = WIN_SCORE - 1 /\ last.pre.rScore = WIN_SCORE

\* C30: a spectator that has been sent a state line was sent its one config
\* line, spec, before; the state lines it was sent are those of consecutive
\* iterations, in order, each once; and a spectator that was in the list when
\* the latest broadcast began and is still in it has been sent the line of
\* that iteration: nothing is skipped from the first broadcast after it was
\* appended until it is removed or the session ends.
C30_SpectatorSeesConfigThenEveryTick ==
    \A c \in SpectatorConns :
        /\ log[c] # << >> => config[c] = << SpecConfig >>
        /\ \A i \in 1..(Len(log[c]) - 1) : log[c][i + 1] = log[c][i] + 1
        /\ (last.ran /\ last.ok /\ c \in Range(last.specs) \cap Range(spectators)) =>
               /\ log[c] # << >>
               /\ log[c][Len(log[c])] = ticks
        /\ c \notin Range(last.specs) \cup Range(spectators) =>
               (log[c] = << >> \/ sock[c] = "closed")

\* C30 witness: a spectator accepted by a running session has been sent its
\* config line and then the state lines of three consecutive iterations,
\* the first of them the one after it was appended.
C30_Witness ==
    \E c \in SpectatorConns :
        /\ config[c] = << SpecConfig >>
        /\ Len(log[c]) = 3
        /\ log[c][1] > 1
        /\ log[c][3] = ticks
        /\ c \in Range(spectators)

\* C27: the main thread holds spectators_lock at every statement of the
\* broadcast's for loop and removals and of the teardown's closes and clear,
\* and the acceptor holds it at its append; so while the main thread is in
\* its for loops the list is the one it found when it took the lock, and
\* while it removes, that list less what it has removed: no append falls
\* between.
C27_ListTouchedUnderLockOnly ==
    /\ mt.pc \in {"iter", "remove", "close"} => spectators_lock = "main"
    /\ at.pc = "append" => spectators_lock = "acceptor"
    /\ mt.pc \in {"iter", "close"} => spectators = mt.seen
    /\ mt.pc = "remove" =>
           /\ Range(spectators) \subseteq Range(mt.seen)
           /\ \A c \in Range(mt.seen) \ Range(spectators) : sock[c] = "closed"
           /\ \A c \in Range(mt.seen) \ Range(spectators) : ~SendOK(c)

\* C27 witness: the acceptor waits for the lock with a connection to append
\* while the main thread, which holds it, removes a spectator whose send
\* raised.
C27_Witness ==
    /\ at.pc = "lock"
    /\ mt.pc = "remove"
    /\ spectators_lock = "main"
    /\ Len(mt.seen) = 1
    /\ spectators = << >>

\* C31: the state lines sent to the right player are, in order, the first of
\* those sent to the left player, which has been sent at most one more; every
\* state line sent to a spectator was sent to both players; and an iteration
\* whose send to a player raised sent nothing to any spectator.
C31_PlayersFirstThenSpectators ==
    /\ Len(log[RIGHT]) <= Len(log[LEFT])
    /\ Len(log[LEFT]) <= Len(log[RIGHT]) + 1
    /\ log[RIGHT] = SubSeq(log[LEFT], 1, Len(log[RIGHT]))
    /\ \A c \in SpectatorConns :
           Range(log[c]) \subseteq Range(log[LEFT]) \cap Range(log[RIGHT])
    /\ (last.ran /\ ~last.ok) => last.delivered \cap SpectatorConns = {}

\* C31 witness: the send to the right player raised in the latest iteration,
\* after the send to the left player; the left player has that line, and the
\* spectator in the list, which was sent the line before it, has not.
C31_Witness ==
    /\ last.ran
    /\ ~last.ok
    /\ LEFT \in last.delivered
    /\ Len(log[LEFT]) = Len(log[RIGHT]) + 1
    /\ log[LEFT][Len(log[LEFT])] = ticks
    /\ \E c \in Range(last.specs) :
           /\ SendOK(c)
           /\ log[c] # << >>
           /\ log[c][Len(log[c])] = ticks - 1

\* C32: a ready flag that is set goes back to unset only in an iteration of
\* the loop that began with the round over and both flags set; no line of
\* either stream, no other iteration, in play or with the round over, and no
\* other step clears it.
C32_ReadyHeldUntilRematchReset ==
    [][\A c \in Controllers :
          (ready[c] /\ ~ready'[c]) =>
              /\ TickStep
              /\ RoundOver(lScore, rScore)
              /\ ready[LEFT] /\ ready[RIGHT]]_vars

\* C32 witness: the left flag, set while the round was in play, is still set
\* after the iteration in which the round ended, the right flag being unset.
C32_Witness ==
    /\ last.ran
    /\ ~last.over
    /\ RoundOver(lScore, rScore)
    /\ last.ready[LEFT]
    /\ ready[LEFT]
    /\ ~ready[RIGHT]

\* the scores the client's loop had read before entry i of hist
ObsBefore(i) == SelectSeq(SubSeq(hist, 1, i - 1), LAMBDA e : e.k = "obs")

C34_WholeLinesThenExit ==
    /\ Len(cl.view) = 6 => cl.view \in {Defaults} \cup got
    /\ rt.pc # "write" => shared_state.vals \in {Defaults} \cup got
    /\ shared_state.connected = (rt.pc # "done")
    /\ cl.late <= 1
    /\ (cl.late = 1 /\ cl.pc \in {"send", "lock", "read", "draw"}) => ~cl.running
    /\ cl.pc = "done" => ~cl.running

\* C34 witness: the loop read the values of a state line, the receiver then
\* met the end of the stream, and the loop, having begun one more iteration,
\* has ended.
C34_Witness ==
    /\ Len(cl.view) = 6
    /\ cl.view \in got
    /\ cl.view # Defaults
    /\ rt.pc = "done"
    /\ sock_file = << >>
    /\ cl.late = 1
    /\ cl.pc = "done"

====
